---- MODULE Spec2Model ----
(***************************************************************************)
(* Model of the upload component src/src/components/FileUpload.tsx of      *)
(* India_Sweet_House: the upload state machine (validation, backend        *)
(* attempt, local fallback) and the heuristic extraction pipelines that    *)
(* turn a raw grid of cells into outlet records.                           *)
(*                                                                         *)
(* Representation.                                                         *)
(*   - A JavaScript string is a sequence of one-character strings          *)
(*     (<<"J","u","n">>), so that includes/trim/toLowerCase/regular        *)
(*     expressions are computed character by character.                    *)
(*   - null and undefined are the value NULL.                              *)
(*   - A JavaScript number is an integer count of thousandths (1.5 is      *)
(*     1500); NaN is the value NaN of ParseFloat's result record.          *)
(*   - A grid (rawData) is a sequence of rows, a row a sequence of cells;  *)
(*     the code's 0-based indices are kept and translated by Row and At.   *)
(*   - A record (a JavaScript object) is a function from key to value; a   *)
(*     missing key is a key outside its DOMAIN.                            *)
(***************************************************************************)
EXTENDS Integers, Sequences, FiniteSets, TLC

VARIABLES
    grid,        \* rawData handed to the extraction
    filename,    \* file.name handed to the extraction
    today,       \* new Date().toISOString().split('T')[0] at the time of a call
    calls,       \* the extraction calls made so far: <<[fn, date, route, blocks, out]>>
    files,       \* the files of one drop: name, type, size, content, backend answer
    pc,          \* per file: where its processing stands
    error,       \* useState error
    isProcessing,\* useState isProcessing
    uploadedFiles,\* useState uploadedFiles
    delivered,   \* the onFileUpload calls made so far: <<[data, filename]>>
    log          \* per file: what happened to it (history of handler steps)

vars == <<grid, filename, today, calls, files, pc, error, isProcessing,
          uploadedFiles, delivered, log>>

extractVars == <<grid, filename, calls>>
uploadVars == <<files, pc, error, isProcessing, uploadedFiles, delivered, log>>

(***************************************************************************)
(* Strings                                                                 *)
(***************************************************************************)
NULL == <<"null">>

UpperCaseLetters ==
    <<"A","B","C","D","E","F","G","H","I","J","K","L","M",
      "N","O","P","Q","R","S","T","U","V","W","X","Y","Z">>

LowerCaseLetters ==
    <<"a","b","c","d","e","f","g","h","i","j","k","l","m",
      "n","o","p","q","r","s","t","u","v","w","x","y","z">>

Digits == <<"0","1","2","3","4","5","6","7","8","9">>

IsUpper(c) == \E i \in 1..26 : UpperCaseLetters[i] = c
IsLower(c) == \E i \in 1..26 : LowerCaseLetters[i] = c
IsLetter(c) == IsUpper(c) \/ IsLower(c)
IsDigit(c) == \E i \in 1..10 : Digits[i] = c
DigitVal(c) == (CHOOSE i \in 1..10 : Digits[i] = c) - 1

\* JavaScript's white space, as far as the cells of the model use it
IsSpace(c) == c \in {" ", "nbsp", "tab"}

LowerChar(c) ==
    IF IsUpper(c) THEN LowerCaseLetters[CHOOSE i \in 1..26 : UpperCaseLetters[i] = c]
    ELSE c

UpperChar(c) ==
    IF IsLower(c) THEN UpperCaseLetters[CHOOSE i \in 1..26 : LowerCaseLetters[i] = c]
    ELSE c

toLowerCase(s) == [i \in 1..Len(s) |-> LowerChar(s[i])]
toUpperCase(s) == [i \in 1..Len(s) |-> UpperChar(s[i])]

\* String.prototype.includes
includes(s, t) ==
    \E i \in 0..(Len(s) - Len(t)) : SubSeq(s, i + 1, i + Len(t)) = t

startsWith(s, t) == Len(t) <= Len(s) /\ SubSeq(s, 1, Len(t)) = t
endsWith(s, t) == Len(t) <= Len(s) /\ SubSeq(s, Len(s) - Len(t) + 1, Len(s)) = t

RECURSIVE trimStart(_)
trimStart(s) ==
    IF s /= <<>> /\ IsSpace(Head(s)) THEN trimStart(Tail(s)) ELSE s

RECURSIVE trimEnd(_)
trimEnd(s) ==
    IF s /= <<>> /\ IsSpace(s[Len(s)]) THEN trimEnd(SubSeq(s, 1, Len(s) - 1)) ELSE s

\* String.prototype.trim
trim(s) == trimEnd(trimStart(s))

\* Number.prototype.toString for the integers a template string formats
RECURSIVE NatToString(_)
NatToString(n) ==
    IF n < 10 THEN <<Digits[n + 1]>>
    ELSE NatToString(n \div 10) \o <<Digits[(n % 10) + 1]>>

(***************************************************************************)
(* Cells and rows                                                          *)
(***************************************************************************)
\* rawData[i] (undefined outside the grid)
Row(rawData, i) ==
    IF i >= 0 /\ i < Len(rawData) THEN rawData[i + 1] ELSE NULL

\* row[j] (undefined outside the row; sheet_to_json gives null for a blank cell)
At(row, j) ==
    IF row /= NULL /\ j >= 0 /\ j < Len(row) THEN row[j + 1] ELSE NULL

\* JavaScript truthiness of a cell: neither null/undefined nor ''
Truthy(cell) == cell /= NULL /\ cell /= <<>>

\* cell?.toString() || ''
Str(cell) == IF cell = NULL THEN <<>> ELSE cell

(***************************************************************************)
(* Numbers                                                                 *)
(***************************************************************************)
\* One unit of the fixed-point representation: 1 is 1000 thousandths
Unit == 1000

RECURSIVE LeadingDigits(_)
LeadingDigits(s) ==
    IF s /= <<>> /\ IsDigit(Head(s)) THEN <<Head(s)>> \o LeadingDigits(Tail(s))
    ELSE <<>>

RECURSIVE DigitsValue(_)
DigitsValue(ds) ==
    IF ds = <<>> THEN 0
    ELSE DigitsValue(SubSeq(ds, 1, Len(ds) - 1)) * 10 + DigitVal(ds[Len(ds)])

\* The fraction digits .d, .dd, .ddd as thousandths (further digits are dropped)
FractionValue(ds) ==
    LET d(i) == IF i <= Len(ds) THEN DigitVal(ds[i]) ELSE 0
    IN d(1) * 100 + d(2) * 10 + d(3)

\* parseFloat(x): white space, an optional sign, digits, an optional fraction;
\* whatever follows is ignored; NaN when no digit is found
ParseFloat(cell) ==
    IF cell = NULL THEN [nan |-> TRUE, val |-> 0]
    ELSE
      LET t == trimStart(cell)
          signed == t /= <<>> /\ Head(t) \in {"-", "+"}
          sign == IF t /= <<>> /\ Head(t) = "-" THEN -1 ELSE 1
          body == IF signed THEN Tail(t) ELSE t
          int == LeadingDigits(body)
          rest == SubSeq(body, Len(int) + 1, Len(body))
          frac == IF rest /= <<>> /\ Head(rest) = "." THEN LeadingDigits(Tail(rest))
                  ELSE <<>>
      IN IF int = <<>> /\ frac = <<>> THEN [nan |-> TRUE, val |-> 0]
         ELSE [nan |-> FALSE,
               val |-> sign * (DigitsValue(int) * Unit + FractionValue(frac))]

\* parseFloat(x) || 0
ParseFloatOr0(cell) == LET n == ParseFloat(cell) IN IF n.nan THEN 0 ELSE n.val

\* str.replace(/[^0-9.-]/g, '')
RECURSIVE StripNonNumeric(_)
StripNonNumeric(s) ==
    IF s = <<>> THEN <<>>
    ELSE IF IsDigit(Head(s)) \/ Head(s) \in {".", "-"}
         THEN <<Head(s)>> \o StripNonNumeric(Tail(s))
         ELSE StripNonNumeric(Tail(s))

\* A JS number (typeof val === 'number'), in thousandths
Number(n) == <<"number", n>>
IsNumber(val) == Len(val) = 2 /\ val[1] = "number"

\* A variant of cleanNumber that does not read parentheses as a minus sign
cleanNumberUnsigned(val) ==
    IF IsNumber(val) THEN val[2]
    ELSE IF ~Truthy(val) THEN 0
    ELSE LET num == ParseFloat(StripNonNumeric(trim(val)))
         IN IF num.nan THEN 0 ELSE num.val

cleanNumber(val) ==
    IF IsNumber(val) THEN val[2]
    ELSE IF ~Truthy(val) THEN 0
    ELSE
      LET str0 == trim(val)
          str1 == IF startsWith(str0, <<"(">>) /\ endsWith(str0, <<")">>)
                  THEN <<"-">> \o SubSeq(str0, 2, Len(str0) - 1)
                  ELSE str0
          num == ParseFloat(StripNonNumeric(str1))
      IN IF num.nan THEN 0 ELSE num.val

(***************************************************************************)
(* String literals of the source                                           *)
(***************************************************************************)
\* The string literals the code searches for
N_particular == <<"p","a","r","t","i","c","u","l","a","r">>
N_direct_income == <<"d","i","r","e","c","t"," ","i","n","c","o","m","e">>
N_total_revenue == <<"t","o","t","a","l"," ","r","e","v","e","n","u","e">>
N_cogs == <<"c","o","g","s">>
N_outlet_expenses ==
    <<"o","u","t","l","e","t"," ","e","x","p","e","n","s","e","s">>
N_ebidta == <<"e","b","i","d","t","a">>
N_ebitda == <<"e","b","i","t","d","a">>
N_finance_cost == <<"f","i","n","a","n","c","e"," ","c","o","s","t">>
N_pbt == <<"p","b","t">>
N_wastage == <<"w","a","s","t","a","g","e">>
N_outlet == <<"o","u","t","l","e","t">>
N_expenses == <<"e","x","p","e","n","s","e","s">>
N_summary == <<"s","u","m","m","a","r","y">>
N_manager == <<"m","a","n","a","g","e","r">>
N_total == <<"t","o","t","a","l">>
N_consolidated == <<"c","o","n","s","o","l","i","d","a","t","e","d">>
N_rs == <<"r","s",".">>
N_nan == <<"n","a","n">>
N_NaN == <<"N","a","N">>
N_Unnamed == <<"U","n","n","a","m","e","d">>
N_dash2 == <<"-","2">>
N_pct == <<"%">>
N_PARTICULARS == <<"P","A","R","T","I","C","U","L","A","R","S">>
N_PARTICULAR == <<"P","A","R","T","I","C","U","L","A","R">>
N_CONSOLIDATED == <<"C","O","N","S","O","L","I","D","A","T","E","D">>
N_SUMMARY == <<"S","U","M","M","A","R","Y">>
N_dash == <<"-">>

\* requiredMetrics: the canonical metric names, which are record keys too
M_DirectIncome == <<"D","i","r","e","c","t"," ","I","n","c","o","m","e">>
M_TotalRevenue == <<"T","O","T","A","L"," ","R","E","V","E","N","U","E">>
M_COGS == <<"C","O","G","S">>
M_OutletExpenses ==
    <<"O","u","t","l","e","t"," ","E","x","p","e","n","s","e","s">>
M_EBIDTA == <<"E","B","I","D","T","A">>
M_FinanceCost == <<"F","i","n","a","n","c","e"," ","C","o","s","t">>
M_PBT == <<"P","B","T">>
M_WASTAGE == <<"W","A","S","T","A","G","E">>
M_BankCharges ==
    <<"0","1","-","B","a","n","k"," ","C","h","a","r","g","e","s">>
M_InterestOnBorrowings ==
    <<"0","2","-","I","n","t","e","r","e","s","t"," ","o","n"," ","B","o","r",
      "r","o","w","i","n","g","s">>
M_InterestOnVehicleLoan ==
    <<"0","3","-","I","n","t","e","r","e","s","t"," ","o","n"," ","V","e","h",
      "i","c","l","e"," ","L","o","a","n">>
M_MG == <<"0","4","-","M","G">>

\* The other keys of the records the pipelines build
K_Outlet == <<"O","u","t","l","e","t">>
K_OutletName == <<"O","u","t","l","e","t"," ","N","a","m","e">>
K_OutletManager == <<"O","u","t","l","e","t"," ","M","a","n","a","g","e","r">>
K_Month == <<"M","o","n","t","h">>
K_Date == <<"D","a","t","e">>
K_ProductName == <<"P","r","o","d","u","c","t"," ","N","a","m","e">>
K_Category == <<"C","a","t","e","g","o","r","y">>
K_Branch == <<"B","r","a","n","c","h">>
K_Cashier == <<"C","a","s","h","i","e","r">>
K_CustomerType == <<"C","u","s","t","o","m","e","r"," ","T","y","p","e">>
K_PaymentMode == <<"P","a","y","m","e","n","t"," ","M","o","d","e">>
K_UploadFilename ==
    <<"U","p","l","o","a","d"," ","F","i","l","e","n","a","m","e">>
K_MetricType == <<"M","e","t","r","i","c"," ","T","y","p","e">>
K_StoreName == <<"S","t","o","r","e"," ","N","a","m","e">>
K_ClusterManager ==
    <<"C","l","u","s","t","e","r"," ","M","a","n","a","g","e","r">>
K_SalesType == <<"S","a","l","e","s"," ","T","y","p","e">>
K_PaymentType == <<"P","a","y","m","e","n","t"," ","T","y","p","e">>
K_Quantity == <<"Q","u","a","n","t","i","t","y">>
K_Qty == <<"Q","t","y">>
K_DiscountPct == <<"D","i","s","c","o","u","n","t"," ","(","%",")">>
K_GSTPct == <<"G","S","T"," ","(","%",")">>
K_Percentage == <<"P","e","r","c","e","n","t","a","g","e">>
K_TotalAmount ==
    <<"T","o","t","a","l"," ","A","m","o","u","n","t"," ","(","₹",")">>
K_TotalSales == <<"T","o","t","a","l"," ","S","a","l","e","s">>
K_UnitPrice == <<"U","n","i","t"," ","P","r","i","c","e"," ","(","₹",")">>
K_GrossAmount == <<"G","r","o","s","s"," ","A","m","o","u","n","t">>
K_EBITDA == <<"E","B","I","T","D","A">>
K_ItemName == <<"I","t","e","m"," ","N","a","m","e">>

\* The constant strings the pipelines store in records
V_OutletPrefix == <<"O","u","t","l","e","t"," ">>
V_ManagerPrefix == <<"M","a","n","a","g","e","r"," ">>
V_Manager == <<"M","a","n","a","g","e","r">>
V_OutletSummary == <<"O","u","t","l","e","t"," ","S","u","m","m","a","r","y">>
V_FinancialSummary ==
    <<"F","i","n","a","n","c","i","a","l"," ","S","u","m","m","a","r","y">>
V_SummaryData == <<"S","u","m","m","a","r","y"," ","D","a","t","a">>
V_NA == <<"N","/","A">>
V_FinancialMetric ==
    <<"F","i","n","a","n","c","i","a","l"," ","M","e","t","r","i","c">>
V_AllOutlets == <<"A","l","l"," ","O","u","t","l","e","t","s">>
V_SampleData == <<"S","a","m","p","l","e"," ","D","a","t","a">>
V_Sample == <<"S","a","m","p","l","e">>
V_SampleOutlet == <<"S","a","m","p","l","e"," ","O","u","t","l","e","t">>
V_SampleManager == <<"S","a","m","p","l","e"," ","M","a","n","a","g","e","r">>
V_Cash == <<"C","a","s","h">>
V_FinancialDataPrefix ==
    <<"F","i","n","a","n","c","i","a","l"," ","D","a","t","a"," ","-"," ">>
V_FinancialReport ==
    <<"F","i","n","a","n","c","i","a","l"," ","R","e","p","o","r","t">>

(***************************************************************************)
(* Records                                                                 *)
(***************************************************************************)
Min(a, b) == IF a < b THEN a ELSE b
Max(a, b) == IF a > b THEN a ELSE b
SetMin(S) == CHOOSE x \in S : \A y \in S : x <= y

\* obj[key] = value
Put(obj, key, value) == (key :> value) @@ obj

Has(obj, key) == key \in DOMAIN obj

\* obj[key] || 0, for a key that holds a number when present
GetOr0(obj, key) == IF Has(obj, key) THEN obj[key] ELSE 0

\* !obj[key], for a key that holds a number when present
Falsy(obj, key) == ~Has(obj, key) \/ obj[key] = 0

\* `Outlet ${n}`
Template(prefix, n) == prefix \o NatToString(n)

(***************************************************************************)
(* detectOutletWiseFormat                                                  *)
(***************************************************************************)
DetectMinRows == 5
DetectScanRows == 20
DetectScanCols == 10

requiredMetricsLower ==
    <<N_direct_income, N_total_revenue, N_cogs, N_outlet_expenses,
      N_ebidta, N_ebitda, N_finance_cost, N_pbt, N_wastage>>

\* The cells <<i, j>> of the first `rows` rows and `cols` columns
Window(rawData, rows, cols) ==
    {ij \in (0..(Min(rows, Len(rawData)) - 1)) \X (0..(cols - 1)) :
        ij[2] < Len(Row(rawData, ij[1]))}

\* row[j]?.toString().toLowerCase() || ''
LowerCell(rawData, i, j) == toLowerCase(Str(At(Row(rawData, i), j)))

detectOutletWiseFormat(rawData) ==
    IF Len(rawData) < DetectMinRows THEN FALSE
    ELSE
      LET window == Window(rawData, DetectScanRows, DetectScanCols)
          hasParticulars ==
              \E ij \in window : includes(LowerCell(rawData, ij[1], ij[2]), N_particular)
          hasMetrics ==
              Cardinality({c \in window \X DOMAIN requiredMetricsLower :
                  includes(LowerCell(rawData, c[1][1], c[1][2]),
                           requiredMetricsLower[c[2]])})
      IN hasParticulars \/ hasMetrics >= 3

(***************************************************************************)
(* processOutletWiseWorksheet                                              *)
(***************************************************************************)
requiredMetrics ==
    <<M_DirectIncome, M_TotalRevenue, M_COGS, M_OutletExpenses,
      M_EBIDTA, M_FinanceCost, M_PBT, M_WASTAGE,
      M_BankCharges, M_InterestOnBorrowings, M_InterestOnVehicleLoan, M_MG>>

\* /^[A-Za-z]+-\d{2}$/.test(s)
monthPattern(s) ==
    /\ Len(s) >= 4
    /\ s[Len(s) - 2] = "-"
    /\ IsDigit(s[Len(s) - 1])
    /\ IsDigit(s[Len(s)])
    /\ \A i \in 1..(Len(s) - 3) : IsLetter(s[i])

\* The header search: the first cell containing 'particular', else the first
\* row with a month-pattern cell, else row 0
WorksheetHeader(rawData) ==
    LET rows == 0..(Min(DetectScanRows, Len(rawData)) - 1)
        hit(i, j) == /\ j < Min(DetectScanCols, Len(Row(rawData, i)))
                     /\ includes(LowerCell(rawData, i, j), N_particular)
        hitRows == {i \in rows : \E j \in 0..(DetectScanCols - 1) : hit(i, j)}
        monthRows ==
            {i \in rows : \E j \in 0..(Len(Row(rawData, i)) - 1) :
                /\ Truthy(At(Row(rawData, i), j))
                /\ monthPattern(trim(At(Row(rawData, i), j)))}
    IN IF hitRows /= {}
       THEN LET i == SetMin(hitRows)
            IN [headerRowIndex |-> i,
                particularsColIndex |->
                    SetMin({j \in 0..(DetectScanCols - 1) : hit(i, j)})]
       ELSE [headerRowIndex |-> IF monthRows /= {} THEN SetMin(monthRows) ELSE 0,
             particularsColIndex |-> 0]

\* outletRow and managerRow: the rows one and three above the header
OutletRow(rawData, headerRowIndex) ==
    IF headerRowIndex > 0 THEN Row(rawData, headerRowIndex - 1) ELSE <<>>

ManagerRow(rawData, headerRowIndex) ==
    IF headerRowIndex > 2 THEN Row(rawData, headerRowIndex - 3) ELSE <<>>

\* A variant of isMonthPair that takes the next cell only when it is '%' or
\* '%' with a decimal suffix
isMonthPairExactPct(headerRow, colIdx) ==
    LET cellValue == trim(Str(At(headerRow, colIdx)))
        nextCellValue == trim(Str(At(headerRow, colIdx + 1)))
    IN /\ monthPattern(cellValue) \/ includes(cellValue, N_dash2)
       /\ \/ nextCellValue = N_pct
          \/ /\ Len(nextCellValue) >= 3
             /\ nextCellValue[1] = "%"
             /\ nextCellValue[2] = "."
             /\ \A i \in 3..Len(nextCellValue) : IsDigit(nextCellValue[i])

\* Strict pattern: Month column followed by % column
isMonthPair(headerRow, colIdx) ==
    LET cellValue == trim(Str(At(headerRow, colIdx)))
        nextCellValue == trim(Str(At(headerRow, colIdx + 1)))
    IN /\ monthPattern(cellValue) \/ includes(cellValue, N_dash2)
       /\ nextCellValue = N_pct \/ includes(nextCellValue, N_pct)

\* The outlet pushed for a month pair at colIdx, `found` outlets being there
StrictOutlet(rawData, headerRowIndex, colIdx, found) ==
    LET outletRow == OutletRow(rawData, headerRowIndex)
        managerRow == ManagerRow(rawData, headerRowIndex)
        above2 == At(Row(rawData, headerRowIndex - 2), colIdx)
    IN [index |-> colIdx,
        name |-> IF Truthy(At(outletRow, colIdx)) THEN trim(At(outletRow, colIdx))
                 ELSE IF headerRowIndex > 1 /\ Truthy(above2) THEN trim(above2)
                 ELSE Template(V_OutletPrefix, found + 1),
        manager |-> IF Truthy(At(managerRow, colIdx)) THEN trim(At(managerRow, colIdx))
                    ELSE V_Manager,
        month |-> trim(Str(At(Row(rawData, headerRowIndex), colIdx)))]

\* The scan of the header row from colIdx on; a pair's % column is skipped
RECURSIVE StrictOutlets(_, _, _, _)
StrictOutlets(rawData, headerRowIndex, colIdx, outlets) ==
    LET headerRow == Row(rawData, headerRowIndex)
    IN IF headerRow = NULL \/ colIdx >= Len(headerRow) THEN outlets
       ELSE IF isMonthPair(headerRow, colIdx)
            THEN StrictOutlets(rawData, headerRowIndex, colIdx + 2,
                     Append(outlets,
                            StrictOutlet(rawData, headerRowIndex, colIdx, Len(outlets))))
            ELSE StrictOutlets(rawData, headerRowIndex, colIdx + 1, outlets)

\* rawData.find(row => row[particularsColIndex] ... includes('total revenue'))
RevenueRow(rawData, particularsColIndex) ==
    LET hits == {i \in 0..(Len(rawData) - 1) :
                    /\ Truthy(At(Row(rawData, i), particularsColIndex))
                    /\ includes(LowerCell(rawData, i, particularsColIndex),
                                N_total_revenue)}
    IN IF hits = {} THEN NULL ELSE Row(rawData, SetMin(hits))

\* A variant of LooksLikeTotal that knows the word 'total' alone
LooksLikeTotalOnly(outletName) ==
    includes(toLowerCase(outletName), N_total)

\* The loose fallback's test of a resolved outlet name: a "Total" column
LooksLikeTotal(outletName) ==
    \/ includes(toLowerCase(outletName), N_total)
    \/ includes(toLowerCase(outletName), N_consolidated)

\* The loose fallback: every column of the revenue row with a non-zero number
RECURSIVE LooseOutlets(_, _, _, _, _, _)
LooseOutlets(rawData, headerRowIndex, revenueRow, colIdx, currentDate, outlets) ==
    IF colIdx >= Len(revenueRow) THEN outlets
    ELSE
      LET outletRow == OutletRow(rawData, headerRowIndex)
          managerRow == ManagerRow(rawData, headerRowIndex)
          val == cleanNumber(At(revenueRow, colIdx))
          outletName == IF Truthy(At(outletRow, colIdx)) THEN trim(At(outletRow, colIdx))
                        ELSE Template(V_OutletPrefix, Len(outlets) + 1)
          outlet == [index |-> colIdx,
                     name |-> outletName,
                     manager |-> IF Truthy(At(managerRow, colIdx))
                                 THEN trim(At(managerRow, colIdx)) ELSE V_Manager,
                     month |-> currentDate]
      IN IF val /= 0 /\ ~LooksLikeTotal(outletName)
         THEN LooseOutlets(rawData, headerRowIndex, revenueRow, colIdx + 1,
                           currentDate, Append(outlets, outlet))
         ELSE LooseOutlets(rawData, headerRowIndex, revenueRow, colIdx + 1,
                           currentDate, outlets)

\* The outlets found in the grid, and the path that found them
WorksheetOutlets(rawData, currentDate) ==
    LET hdr == WorksheetHeader(rawData)
        strict == StrictOutlets(rawData, hdr.headerRowIndex,
                                hdr.particularsColIndex + 1, <<>>)
        revenueRow == RevenueRow(rawData, hdr.particularsColIndex)
    IN IF strict /= <<>> THEN [path |-> "strict", outlets |-> strict]
       ELSE [path |-> "loose",
             outlets |-> IF revenueRow = NULL THEN <<>>
                         ELSE LooseOutlets(rawData, hdr.headerRowIndex, revenueRow,
                                           hdr.particularsColIndex + 1, currentDate, <<>>)]

\* requiredMetrics.find(m => NAME.includes(M) || M_includes(NAME)): the index of
\* the first matching entry, 0 when none matches
MatchedMetric(metricName) ==
    LET name == toUpperCase(metricName)
        hits == {k \in DOMAIN requiredMetrics :
                    \/ includes(name, toUpperCase(requiredMetrics[k]))
                    \/ includes(toUpperCase(requiredMetrics[k]), name)}
    IN IF hits = {} THEN 0 ELSE SetMin(hits)

\* outletData[matchedMetric] = value, and its aliases
StoreMetric(outletData, matchedMetric, value) ==
    LET d1 == Put(outletData, matchedMetric, value)
        d2 == IF matchedMetric = M_EBIDTA THEN Put(d1, K_EBITDA, value) ELSE d1
    IN IF matchedMetric = M_TotalRevenue
       THEN Put(Put(Put(Put(d2, K_TotalAmount, value), K_TotalSales, value),
                    K_UnitPrice, value), K_GrossAmount, value)
       ELSE d2

\* The record an outlet starts from
OutletSeed(outlet, fname, currentDate) ==
    (K_Outlet :> outlet.name) @@
    (K_OutletName :> outlet.name) @@
    (K_OutletManager :> outlet.manager) @@
    (K_Month :> IF outlet.month /= <<>> THEN outlet.month ELSE currentDate) @@
    (K_Date :> currentDate) @@
    (K_ProductName :> V_OutletSummary) @@
    (K_Category :> V_FinancialSummary) @@
    (K_Branch :> outlet.name) @@
    (K_Cashier :> outlet.manager) @@
    (K_CustomerType :> V_SummaryData) @@
    (K_PaymentMode :> V_NA) @@
    (K_UploadFilename :> fname) @@
    (K_MetricType :> V_OutletSummary) @@
    (K_StoreName :> outlet.name) @@
    (K_ClusterManager :> outlet.manager) @@
    (K_SalesType :> V_SummaryData) @@
    (K_PaymentType :> V_NA) @@
    (K_Quantity :> 1 * Unit) @@
    (K_Qty :> 1 * Unit) @@
    (K_DiscountPct :> 0) @@
    (K_GSTPct :> 0) @@
    (K_Percentage :> 0)

\* The metric scan of the rows below the header, for the outlet at column `index`
RECURSIVE ScanMetrics(_, _, _, _, _)
ScanMetrics(rawData, particularsColIndex, index, rowIdx, outletData) ==
    IF rowIdx >= Len(rawData) THEN outletData
    ELSE
      LET row == Row(rawData, rowIdx)
          metricName == trim(Str(At(row, particularsColIndex)))
          matched == IF metricName = <<>> THEN 0 ELSE MatchedMetric(metricName)
      IN ScanMetrics(rawData, particularsColIndex, index, rowIdx + 1,
             IF matched = 0 THEN outletData
             ELSE StoreMetric(outletData, requiredMetrics[matched],
                              cleanNumber(At(row, index))))

\* Add Finance Cost as sum of interest components if not present
WithFinanceCost(outletData) ==
    IF Falsy(outletData, M_FinanceCost)
    THEN Put(outletData, M_FinanceCost,
             GetOr0(outletData, M_BankCharges)
             + GetOr0(outletData, M_InterestOnBorrowings)
             + GetOr0(outletData, M_InterestOnVehicleLoan)
             + GetOr0(outletData, M_MG))
    ELSE outletData

\* The record of one outlet
OutletData(rawData, hdr, outlet, fname, currentDate) ==
    WithFinanceCost(
        ScanMetrics(rawData, hdr.particularsColIndex, outlet.index,
                    hdr.headerRowIndex + 1, OutletSeed(outlet, fname, currentDate)))

processOutletWiseWorksheet(rawData, fname, currentDate) ==
    LET hdr == WorksheetHeader(rawData)
        outlets == WorksheetOutlets(rawData, currentDate).outlets
    IN [i \in 1..Len(outlets) |->
           OutletData(rawData, hdr, outlets[i], fname, currentDate)]

(***************************************************************************)
(* processOutletBasedReport                                                *)
(***************************************************************************)
OutletBasedMinCells == 5

\* row[j]?.toString().trim()   (undefined for a blank cell)
TrimmedOrNull(row, j) == IF At(row, j) = NULL THEN NULL ELSE trim(At(row, j))

\* The rows the row-per-outlet pipeline skips: short, unnamed, header, aggregate
OutletBasedSkips(row) ==
    LET outletName == TrimmedOrNull(row, 0)
    IN \/ Len(row) < OutletBasedMinCells
       \/ ~Truthy(outletName)
       \/ outletName = N_NaN
       \/ includes(toLowerCase(outletName), N_outlet)
       \/ includes(toLowerCase(outletName), N_consolidated)

\* A variant of outletRecord that keeps the names and drops the filename
outletRecordUnstamped(row, fname, currentDate) ==
    (K_Outlet :> TrimmedOrNull(row, 0)) @@
    (K_OutletManager :> TrimmedOrNull(row, 1)) @@
    (K_Month :> currentDate) @@
    (K_Date :> currentDate)

outletRecord(row, fname, currentDate) ==
    LET outletName == TrimmedOrNull(row, 0)
        outletManager == TrimmedOrNull(row, 1)
        month == TrimmedOrNull(row, 2)
        totalRevenue == ParseFloatOr0(At(row, 4))
        ebitda == ParseFloatOr0(At(row, 7))
    IN (K_Outlet :> outletName) @@
       (K_OutletManager :> outletManager) @@
       (K_OutletName :> outletName) @@
       (K_Month :> IF Truthy(month) THEN month ELSE currentDate) @@
       (M_DirectIncome :> ParseFloatOr0(At(row, 3))) @@
       (M_TotalRevenue :> totalRevenue) @@
       (M_COGS :> ParseFloatOr0(At(row, 5))) @@
       (M_OutletExpenses :> ParseFloatOr0(At(row, 6))) @@
       (M_EBIDTA :> ebitda) @@
       (K_EBITDA :> ebitda) @@
       (M_FinanceCost :> ParseFloatOr0(At(row, 8))) @@
       (M_PBT :> ParseFloatOr0(At(row, 9))) @@
       (M_WASTAGE :> ParseFloatOr0(At(row, 10))) @@
       (M_BankCharges :> ParseFloatOr0(At(row, 11))) @@
       (M_InterestOnBorrowings :> ParseFloatOr0(At(row, 12))) @@
       (M_InterestOnVehicleLoan :> ParseFloatOr0(At(row, 13))) @@
       (M_MG :> ParseFloatOr0(At(row, 14))) @@
       (K_Date :> currentDate) @@
       (K_ProductName :> V_OutletSummary) @@
       (K_Category :> V_FinancialSummary) @@
       (K_Branch :> outletName) @@
       (K_Cashier :> outletManager) @@
       (K_CustomerType :> V_SummaryData) @@
       (K_PaymentMode :> V_NA) @@
       (K_TotalAmount :> totalRevenue) @@
       (K_Quantity :> 1 * Unit) @@
       (K_UnitPrice :> totalRevenue) @@
       (K_DiscountPct :> 0) @@
       (K_GSTPct :> 0) @@
       (K_GrossAmount :> totalRevenue) @@
       (K_UploadFilename :> fname) @@
       (K_MetricType :> V_OutletSummary) @@
       (K_Percentage :> 0) @@
       (K_ItemName :> V_OutletSummary) @@
       (K_StoreName :> outletName) @@
       (K_ClusterManager :> outletManager) @@
       (K_SalesType :> V_SummaryData) @@
       (K_PaymentType :> V_NA) @@
       (K_TotalSales :> totalRevenue) @@
       (K_Qty :> 1 * Unit)

\* for (let i = 1; i < rawData.length; i++): one record per row not skipped
RECURSIVE OutletBasedRows(_, _, _, _)
OutletBasedRows(rawData, i, fname, currentDate) ==
    IF i >= Len(rawData) THEN <<>>
    ELSE (IF OutletBasedSkips(Row(rawData, i)) THEN <<>>
          ELSE <<outletRecord(Row(rawData, i), fname, currentDate)>>)
         \o OutletBasedRows(rawData, i + 1, fname, currentDate)

processOutletBasedReport(rawData, fname, currentDate) ==
    OutletBasedRows(rawData, 1, fname, currentDate)

(***************************************************************************)
(* processCashierBasedReport                                               *)
(***************************************************************************)
CashierNameRows == 5
CashierFallbackRows == 3
CashierMaxGeneric == 10

\* A potential cashier/outlet name of the first search
IsPotentialName(cell) ==
    /\ Truthy(cell)
    /\ trim(cell) /= <<>>
    /\ ~includes(cell, N_Unnamed)
    /\ ~includes(toLowerCase(cell), N_consolidated)
    /\ ~includes(toLowerCase(cell), N_rs)
    /\ Len(trim(cell)) > 1

\* A name of the more lenient second search
IsNonEmptyName(cell) ==
    /\ Truthy(cell)
    /\ trim(cell) /= <<>>
    /\ ~includes(cell, N_Unnamed)

\* The cells of row[j..] that are names (strict: of the first search),
\* trimmed, in column order
RECURSIVE TrimmedCells(_, _, _)
TrimmedCells(row, j, strict) ==
    IF j >= Len(row) THEN <<>>
    ELSE (IF (strict /\ IsPotentialName(At(row, j)))
             \/ (~strict /\ IsNonEmptyName(At(row, j)))
          THEN <<trim(At(row, j))>> ELSE <<>>)
         \o TrimmedCells(row, j + 1, strict)

\* Math.max(...rawData.map(row => row.length)), -Infinity for no rows read as 0
MaxColumns(rawData) ==
    IF rawData = <<>> THEN 0
    ELSE CHOOSE n \in {Len(rawData[i]) : i \in DOMAIN rawData} :
             \A i \in DOMAIN rawData : Len(rawData[i]) <= n

\* headerRowIndex and cashierNames after the three searches
CashierHeader(rawData) ==
    LET potential(i) == TrimmedCells(Row(rawData, i), 1, TRUE)
        rows1 == {i \in 0..(Min(CashierNameRows, Len(rawData)) - 1) :
                     Len(Row(rawData, i)) > 3 /\ Len(potential(i)) >= 1}
        nonEmpty(i) == TrimmedCells(Row(rawData, i), 1, FALSE)
        rows2 == {i \in 0..(Min(CashierFallbackRows, Len(rawData)) - 1) :
                     Len(Row(rawData, i)) > 2 /\ Len(nonEmpty(i)) > 0}
        generic == [i \in 1..(Min(MaxColumns(rawData), CashierMaxGeneric) - 1) |->
                       Template(V_OutletPrefix, i)]
    IN IF rows1 /= {}
       THEN [headerRowIndex |-> SetMin(rows1), cashierNames |-> potential(SetMin(rows1))]
       ELSE IF rows2 /= {}
       THEN [headerRowIndex |-> SetMin(rows2), cashierNames |-> nonEmpty(SetMin(rows2))]
       ELSE [headerRowIndex |-> 0, cashierNames |-> generic]

\* cashierNames[k] || fallback   (k is 0-based)
NameOr(cashierNames, k, fallback) ==
    IF k >= 0 /\ k < Len(cashierNames) /\ cashierNames[k + 1] /= <<>>
    THEN cashierNames[k + 1] ELSE fallback

\* The record of one metric row and one cashier
cashierRecord(metricName, amount, percentage, cashier, manager, fname, currentDate) ==
    (K_Date :> currentDate) @@
    (K_ProductName :> metricName) @@
    (K_Category :> V_FinancialMetric) @@
    (K_Branch :> V_AllOutlets) @@
    (K_Cashier :> cashier) @@
    (K_CustomerType :> V_SummaryData) @@
    (K_PaymentMode :> V_NA) @@
    (K_TotalAmount :> amount) @@
    (K_Quantity :> 1 * Unit) @@
    (K_UnitPrice :> amount) @@
    (K_DiscountPct :> 0) @@
    (K_GSTPct :> 0) @@
    (K_GrossAmount :> amount) @@
    (M_PBT :> amount \div 10) @@
    (K_EBITDA :> (amount * 15) \div 100) @@
    (K_UploadFilename :> fname) @@
    (K_MetricType :> V_FinancialSummary) @@
    (K_Percentage :> percentage) @@
    (K_Month :> currentDate) @@
    (K_ItemName :> metricName) @@
    (K_StoreName :> V_AllOutlets) @@
    (K_ClusterManager :> cashier) @@
    (K_SalesType :> V_SummaryData) @@
    (K_PaymentType :> V_NA) @@
    (K_TotalSales :> amount) @@
    (K_Qty :> 1 * Unit) @@
    (K_Outlet :> cashier) @@
    (K_OutletManager :> manager)

\* Pattern 1: every 3rd column (amount, percentage, blank)
RECURSIVE Pattern1(_, _, _, _, _, _)
Pattern1(row, metricName, cashierNames, cashierIndex, fname, currentDate) ==
    LET colIndex == 1 + 3 * cashierIndex
        amount == ParseFloatOr0(At(row, colIndex))
        percentage == ParseFloatOr0(At(row, colIndex + 1))
    IN IF ~(colIndex < Len(row) /\ cashierIndex < Len(cashierNames)) THEN <<>>
       ELSE (IF amount /= 0 \/ percentage /= 0
             THEN <<cashierRecord(metricName, amount, percentage,
                       NameOr(cashierNames, cashierIndex,
                              Template(V_OutletPrefix, cashierIndex + 1)),
                       NameOr(cashierNames, cashierIndex,
                              Template(V_ManagerPrefix, cashierIndex + 1)),
                       fname, currentDate)>>
             ELSE <<>>)
            \o Pattern1(row, metricName, cashierNames, cashierIndex + 1, fname, currentDate)

\* Pattern 2: sequential columns
RECURSIVE Pattern2(_, _, _, _, _, _)
Pattern2(row, metricName, cashierNames, colIndex, fname, currentDate) ==
    LET amount == ParseFloatOr0(At(row, colIndex))
    IN IF colIndex >= Min(Len(row), Len(cashierNames) + 1) THEN <<>>
       ELSE (IF amount /= 0
             THEN <<cashierRecord(metricName, amount, 0,
                       NameOr(cashierNames, colIndex - 1,
                              Template(V_OutletPrefix, colIndex)),
                       NameOr(cashierNames, colIndex - 1,
                              Template(V_ManagerPrefix, colIndex)),
                       fname, currentDate)>>
             ELSE <<>>)
            \o Pattern2(row, metricName, cashierNames, colIndex + 1, fname, currentDate)

\* The records of one data row
CashierRow(row, cashierNames, fname, currentDate) ==
    LET firstCell == At(row, 0)
        metricName == trim(Str(firstCell))
        p1 == Pattern1(row, metricName, cashierNames, 0, fname, currentDate)
    IN IF Len(row) < 2 \/ ~Truthy(firstCell) THEN <<>>
       ELSE IF metricName = <<>> \/ toLowerCase(metricName) = N_nan THEN <<>>
       ELSE IF p1 /= <<>> THEN p1
       ELSE IF Len(row) > 2
            THEN Pattern2(row, metricName, cashierNames, 1, fname, currentDate)
       ELSE <<>>

RECURSIVE CashierRows(_, _, _, _, _)
CashierRows(rawData, i, cashierNames, fname, currentDate) ==
    IF i >= Len(rawData) THEN <<>>
    ELSE CashierRow(Row(rawData, i), cashierNames, fname, currentDate)
         \o CashierRows(rawData, i + 1, cashierNames, fname, currentDate)

\* A variant of sampleRecord that stamps the date of the call on Branch too
sampleRecordStamped(fname, currentDate) ==
    (K_Date :> currentDate) @@
    (K_Month :> currentDate) @@
    (K_Branch :> currentDate) @@
    (K_Outlet :> V_SampleOutlet) @@
    (K_OutletManager :> V_SampleManager) @@
    (K_UploadFilename :> fname)

\* The dummy record created so the upload succeeds
sampleRecord(fname, currentDate) ==
    (K_Date :> currentDate) @@
    (K_ProductName :> V_SampleData) @@
    (K_Category :> V_Sample) @@
    (K_Branch :> V_SampleOutlet) @@
    (K_Cashier :> V_SampleManager) @@
    (K_CustomerType :> V_Sample) @@
    (K_PaymentMode :> V_Cash) @@
    (K_TotalAmount :> 0) @@
    (K_Quantity :> 0) @@
    (K_UnitPrice :> 0) @@
    (K_DiscountPct :> 0) @@
    (K_GSTPct :> 0) @@
    (K_GrossAmount :> 0) @@
    (M_PBT :> 0) @@
    (K_EBITDA :> 0) @@
    (K_UploadFilename :> fname) @@
    (K_MetricType :> V_Sample) @@
    (K_Percentage :> 0) @@
    (K_Month :> currentDate) @@
    (K_ItemName :> V_SampleData) @@
    (K_StoreName :> V_SampleOutlet) @@
    (K_ClusterManager :> V_SampleManager) @@
    (K_SalesType :> V_Sample) @@
    (K_PaymentType :> V_Cash) @@
    (K_TotalSales :> 0) @@
    (K_Qty :> 0) @@
    (K_Outlet :> V_SampleOutlet) @@
    (K_OutletManager :> V_SampleManager)

processCashierBasedReport(rawData, fname, currentDate) ==
    LET hdr == CashierHeader(rawData)
        startRow == Max(1, hdr.headerRowIndex + 1)
        processedData == CashierRows(rawData, startRow, hdr.cashierNames, fname, currentDate)
    IN IF processedData = <<>> THEN <<sampleRecord(fname, currentDate)>>
       ELSE processedData

(***************************************************************************)
(* processFinancialReport                                                  *)
(***************************************************************************)
OutletHeaderRows == 5
OutletHeaderCols == 5

\* Some cell of row[0..4] names the outlet column / the manager column
HasOutletColumn(row) ==
    \E j \in 0..(Min(OutletHeaderCols, Len(row)) - 1) :
        /\ At(row, j) /= NULL
        /\ includes(toLowerCase(At(row, j)), N_outlet)
        /\ ~includes(toLowerCase(At(row, j)), N_expenses)
        /\ ~includes(toLowerCase(At(row, j)), N_summary)

HasManager(row) ==
    \E j \in 0..(Min(OutletHeaderCols, Len(row)) - 1) :
        At(row, j) /= NULL /\ includes(toLowerCase(At(row, j)), N_manager)

\* outletBasedHeaderRow: the first of the first 5 rows with both, -1 when none
OutletBasedHeaderRow(rawData) ==
    LET rows == {i \in 0..(Min(OutletHeaderRows, Len(rawData)) - 1) :
                    /\ Len(Row(rawData, i)) >= OutletBasedMinCells
                    /\ HasOutletColumn(Row(rawData, i))
                    /\ HasManager(Row(rawData, i))}
    IN IF rows = {} THEN -1 ELSE SetMin(rows)

HasFinancialMetrics(row) ==
    \E j \in 0..(Len(row) - 1) :
        /\ At(row, j) /= NULL
        /\ \E w \in {N_direct_income, N_total_revenue, N_cogs, N_ebitda, N_pbt} :
               includes(toLowerCase(At(row, j)), w)

\* A variant of FinancialReport that looks for the row-per-outlet header
\* before it tries the transposed pipeline
FinancialReportRowFirst(rawData, fname, currentDate) ==
    LET result == IF detectOutletWiseFormat(rawData)
                  THEN processOutletWiseWorksheet(rawData, fname, currentDate)
                  ELSE <<>>
        h == OutletBasedHeaderRow(rawData)
    IN IF h /= -1 /\ HasFinancialMetrics(Row(rawData, h))
       THEN [route |-> "outletBased",
             out |-> processOutletBasedReport(rawData, fname, currentDate)]
       ELSE IF Len(result) > 0 THEN [route |-> "outletWise", out |-> result]
       ELSE [route |-> "cashierBased",
             out |-> processCashierBasedReport(rawData, fname, currentDate)]

\* processFinancialReport: the pipeline that produces the result, and the result
FinancialReport(rawData, fname, currentDate) ==
    LET result == IF detectOutletWiseFormat(rawData)
                  THEN processOutletWiseWorksheet(rawData, fname, currentDate)
                  ELSE <<>>
        h == OutletBasedHeaderRow(rawData)
    IN IF Len(result) > 0 THEN [route |-> "outletWise", out |-> result]
       ELSE IF h /= -1 /\ HasFinancialMetrics(Row(rawData, h))
       THEN [route |-> "outletBased",
             out |-> processOutletBasedReport(rawData, fname, currentDate)]
       ELSE [route |-> "cashierBased",
             out |-> processCashierBasedReport(rawData, fname, currentDate)]

processFinancialReport(rawData, fname, currentDate) ==
    FinancialReport(rawData, fname, currentDate).out

(***************************************************************************)
(* processOutletWiseData and its helpers (the outlet-wise variant of the   *)
(* component, whose local pipeline is this one alone)                      *)
(***************************************************************************)
HeaderScanRows == 50
HeaderScanCols == 20
GetNameMaxUp == 8

\* s.replace(/\xa0/g, ' ') and the removal of the zero-width characters
RECURSIVE ReplaceInvisible(_)
ReplaceInvisible(s) ==
    IF s = <<>> THEN <<>>
    ELSE IF Head(s) = "nbsp" THEN <<" ">> \o ReplaceInvisible(Tail(s))
    ELSE IF Head(s) = "zwsp" THEN ReplaceInvisible(Tail(s))
    ELSE <<Head(s)>> \o ReplaceInvisible(Tail(s))

\* s.replace(/\s+/g, ' ')
RECURSIVE CollapseSpaces(_)
CollapseSpaces(s) ==
    IF s = <<>> THEN <<>>
    ELSE IF IsSpace(Head(s))
         THEN <<" ">> \o CollapseSpaces(trimStart(Tail(s)))
         ELSE <<Head(s)>> \o CollapseSpaces(Tail(s))

normStr(x) ==
    IF x = NULL \/ x = <<>> THEN <<>>
    ELSE trim(CollapseSpaces(ReplaceInvisible(x)))

normUpper(x) == toUpperCase(normStr(x))

\* (?:\.\d+)?$
DecimalSuffix(s) ==
    \/ s = <<>>
    \/ /\ Len(s) >= 2
       /\ s[1] = "."
       /\ \A i \in 2..Len(s) : IsDigit(s[i])

\* ^letters+-\d{2}(?:\.\d+)?$, the letters being [A-Z] or [A-Za-z]
MonthToken(s, upperOnly) ==
    \E k \in 2..(Len(s) - 2) :
        /\ s[k] = "-"
        /\ \A i \in 1..(k - 1) : IsUpper(s[i]) \/ (~upperOnly /\ IsLower(s[i]))
        /\ IsDigit(s[k + 1])
        /\ IsDigit(s[k + 2])
        /\ DecimalSuffix(SubSeq(s, k + 3, Len(s)))

\* /^[A-Za-z]+-\d{2}(?:\.\d+)?$/ of processOutletWiseData
monthPatternData(s) == MonthToken(s, FALSE)

\* /^[A-Z]+-\d{2}(?:\.\d+)?$/ of detectHeader
monthPatternHeader(s) == MonthToken(s, TRUE)

\* /^%(?:\.\d+)?$/
pctPattern(s) == s /= <<>> /\ s[1] = "%" /\ DecimalSuffix(Tail(s))

\* The cells <<i, j>> of the header scan that are (exact) or contain the label
HeaderCells(rawData, exact) ==
    {ij \in (0..(Min(HeaderScanRows, Len(rawData)) - 1)) \X (0..(HeaderScanCols - 1)) :
        /\ ij[2] < Len(Row(rawData, ij[1]))
        /\ IF exact
           THEN normUpper(At(Row(rawData, ij[1]), ij[2])) = N_PARTICULARS
           ELSE includes(normUpper(At(Row(rawData, ij[1]), ij[2])), N_PARTICULAR)}

\* The first cell of a set in row-major order
FirstCell(cells) ==
    CHOOSE ij \in cells : \A kl \in cells :
        ij[1] < kl[1] \/ (ij[1] = kl[1] /\ ij[2] <= kl[2])

\* A variant of detectHeader whose first pass takes any cell containing the
\* label
detectHeaderAnyLabel(rawData) ==
    LET substring == HeaderCells(rawData, FALSE)
    IN IF substring /= {}
       THEN [hdrRow |-> FirstCell(substring)[1], partCol |-> FirstCell(substring)[2]]
       ELSE [hdrRow |-> -1, partCol |-> 0]

detectHeader(rawData) ==
    LET exact == HeaderCells(rawData, TRUE)
        substring == HeaderCells(rawData, FALSE)
        rows == 0..(Min(HeaderScanRows, Len(rawData)) - 1)
        count(i) == Cardinality({j \in 0..(Len(Row(rawData, i)) - 1) :
                        monthPatternHeader(normUpper(At(Row(rawData, i), j)))})
        best == {i \in rows : count(i) > 0 /\ \A k \in rows : count(k) <= count(i)}
        bestRow == SetMin(best)
        filled == {j \in 0..(Len(Row(rawData, bestRow)) - 1) :
                      normStr(At(Row(rawData, bestRow), j)) /= <<>>}
    IN IF exact /= {}
       THEN [hdrRow |-> FirstCell(exact)[1], partCol |-> FirstCell(exact)[2]]
       ELSE IF substring /= {}
       THEN [hdrRow |-> FirstCell(substring)[1], partCol |-> FirstCell(substring)[2]]
       ELSE IF best /= {}
       THEN [hdrRow |-> bestRow, partCol |-> IF filled = {} THEN 0 ELSE SetMin(filled)]
       ELSE [hdrRow |-> -1, partCol |-> 0]

\* Scan up to maxUp rows upward and +/- 2 columns laterally
RECURSIVE GetNameFrom(_, _, _, _, _)
GetNameFrom(rawData, baseRow, baseCol, up, k) ==
    LET offsets == <<0, -1, 1, -2, 2>>
        r == baseRow - up
        c == baseCol + offsets[k]
        val == normStr(At(Row(rawData, r), c))
    IN IF up > GetNameMaxUp \/ r < 0 THEN <<>>
       ELSE IF k > Len(offsets) THEN GetNameFrom(rawData, baseRow, baseCol, up + 1, 1)
       ELSE IF c >= 0 /\ c < Len(Row(rawData, r)) /\ val /= <<>> THEN val
       ELSE GetNameFrom(rawData, baseRow, baseCol, up, k + 1)

\* A variant of getName that tries every row of a column offset before the
\* next offset
RECURSIVE GetNameByColumn(_, _, _, _, _)
GetNameByColumn(rawData, baseRow, baseCol, up, k) ==
    LET offsets == <<0, -1, 1, -2, 2>>
        r == baseRow - up
        c == baseCol + offsets[k]
        val == normStr(At(Row(rawData, r), c))
    IN IF k > Len(offsets) THEN <<>>
       ELSE IF up > GetNameMaxUp \/ r < 0
       THEN GetNameByColumn(rawData, baseRow, baseCol, 0, k + 1)
       ELSE IF c >= 0 /\ c < Len(Row(rawData, r)) /\ val /= <<>> THEN val
       ELSE GetNameByColumn(rawData, baseRow, baseCol, up + 1, k)

getNameColumnFirst(rawData, baseRow, baseCol) ==
    GetNameByColumn(rawData, baseRow, baseCol, 0, 1)

getName(rawData, baseRow, baseCol) == GetNameFrom(rawData, baseRow, baseCol, 0, 1)

\* The rows below the header whose label matches a required metric
MatchesMetric(particular) ==
    /\ Len(particular) > 0
    /\ \E k \in DOMAIN requiredMetrics :
           \/ includes(normUpper(particular), normUpper(requiredMetrics[k]))
           \/ includes(normUpper(requiredMetrics[k]), normUpper(particular))

MetricsData(rawData, hdrRow, partCol) ==
    SelectSeq(SubSeq(rawData, hdrRow + 2, Len(rawData)),
              LAMBDA row : MatchesMetric(normStr(At(row, partCol))))

\* Step 4: the columns that start a Month-% pair
OutletBlocks(headerRowData, partCol) ==
    {i \in (partCol + 1)..(Len(headerRowData) - 2) :
        /\ monthPatternData(normStr(At(headerRowData, i)))
        /\ \/ normStr(At(headerRowData, i + 1)) = N_pct
           \/ pctPattern(normStr(At(headerRowData, i + 1)))}

\* monthLabel.split('-')[0]
RECURSIVE BeforeDash(_)
BeforeDash(s) ==
    IF s = <<>> \/ Head(s) = "-" THEN <<>> ELSE <<Head(s)>> \o BeforeDash(Tail(s))

\* row[metric.particular] = cleanNumber(value), for the metric rows in order
RECURSIVE WithMetrics(_, _, _, _)
WithMetrics(row, metricsData, partCol, valIdx) ==
    IF metricsData = <<>> THEN row
    ELSE WithMetrics(Put(row, normStr(At(Head(metricsData), partCol)),
                         cleanNumber(At(Head(metricsData), valIdx))),
                     Tail(metricsData), partCol, valIdx)

\* The record of the block at column valIdx
blockRecord(rawData, hdr, valIdx, fname, currentDate) ==
    LET outletName == getName(rawData, Max(hdr.hdrRow - 1, 0), valIdx)
        managerName == getName(rawData, Max(hdr.hdrRow - 3, 0), valIdx)
        month == BeforeDash(normStr(At(Row(rawData, hdr.hdrRow), valIdx)))
        row0 == (K_Outlet :> IF outletName /= <<>> THEN outletName
                             ELSE Template(V_OutletPrefix, valIdx)) @@
                (K_OutletManager :> IF managerName /= <<>> THEN managerName
                                    ELSE Template(V_ManagerPrefix, valIdx)) @@
                (K_Month :> month) @@
                (K_Date :> currentDate) @@
                (K_UploadFilename :> fname)
        row1 == WithMetrics(row0, MetricsData(rawData, hdr.hdrRow, hdr.partCol),
                            hdr.partCol, valIdx)
        row2 == Put(row1, K_ProductName, V_FinancialDataPrefix \o month)
        row3 == Put(row2, K_Category, V_FinancialReport)
        row4 == Put(row3, K_Branch, row3[K_Outlet])
        row5 == Put(row4, K_Cashier, row4[K_OutletManager])
        row6 == Put(row5, K_TotalAmount, GetOr0(row5, M_TotalRevenue))
    IN Put(row6, K_Quantity, 1 * Unit)

\* Skip consolidated summary columns
IsConsolidated(rawData, hdrRow, valIdx) ==
    LET outletName == getName(rawData, Max(hdrRow - 1, 0), valIdx)
    IN \/ includes(normUpper(outletName), N_CONSOLIDATED)
       \/ includes(normUpper(outletName), N_SUMMARY)

RECURSIVE BlockRecords(_, _, _, _, _)
BlockRecords(rawData, hdr, i, fname, currentDate) ==
    LET headerRowData == Row(rawData, hdr.hdrRow)
    IN IF i >= Len(headerRowData) - 1 THEN <<>>
       ELSE (IF i \in OutletBlocks(headerRowData, hdr.partCol)
                /\ ~IsConsolidated(rawData, hdr.hdrRow, i)
             THEN <<blockRecord(rawData, hdr, i, fname, currentDate)>>
             ELSE <<>>)
            \o BlockRecords(rawData, hdr, i + 1, fname, currentDate)

processOutletWiseData(rawData, fname, currentDate) ==
    LET hdr == detectHeader(rawData)
    IN IF hdr.hdrRow = -1 THEN <<>>
       ELSE IF MetricsData(rawData, hdr.hdrRow, hdr.partCol) = <<>> THEN <<>>
       ELSE BlockRecords(rawData, hdr, hdr.partCol + 1, fname, currentDate)

(***************************************************************************)
(* The inputs of the extraction: bounded families of grids                 *)
(***************************************************************************)
MaxRows == 3
MaxHeaderCells == 3
MaxCalls == 2

\* The dates new Date() can give, in the order of time
Dates == <<<<"2","0","2","5","-","0","6","-","3","0">>, <<"2","0","2","5","-","0","7","-","0","1">>>>

Filenames == {<<"r","e","p","o","r","t",".","x","l","s","x">>}

SeqsUpTo(S, n) == UNION {[1..k -> S] : k \in 0..n}

\* A row of blank cells (defval: null, and a cell of white space)
BlankRow == <<NULL, <<" ">>>>

\* Rows of the report formats: a transposed header with a month pair, a
\* transposed header without one, a row-per-outlet header, a metric row, a
\* row-per-outlet data row, unrelated content
RowSet ==
    { <<<<"P","A","R","T","I","C","U","L","A","R","S">>, <<"J","u","n","-","2","5">>, <<"%">>>>,
      <<<<"P","a","r","t","i","c","u","l","a","r","s">>, <<"A","m","o","u","n","t">>>>,
      <<<<"O","u","t","l","e","t"," ","N","a","m","e">>, <<"O","u","t","l","e","t"," ","M","a","n","a","g","e","r">>, <<"M","o","n","t","h">>, <<"D","i","r","e","c","t"," ","I","n","c","o","m","e">>,
        <<"T","O","T","A","L"," ","R","E","V","E","N","U","E">>>>,
      <<<<"T","O","T","A","L"," ","R","E","V","E","N","U","E">>, <<"1","0","0">>, <<"1","0">>, <<"7">>, <<"8">>>>,
      <<<<"S","t","o","r","e"," ","A">>, <<"R","a","v","i">>, <<"J","u","n","-","2","5">>, <<"5","0">>, <<"1","2","0">>>>,
      <<<<"h","e","l","l","o">>, <<"w","o","r","l","d">>>> }

\* Grids of up to MaxRows rows, alone or followed by two blank rows
ReportGrids ==
    {g \o pad : g \in SeqsUpTo(RowSet, MaxRows),
                pad \in {<<>>, <<BlankRow, BlankRow>>}}

\* Cells of a transposed header row right of the anchor
HeaderCellSet ==
    {<<"J","u","n","-","2","5">>, <<"%">>, <<"5","%">>, <<"%",".","5">>, <<"%","-","2">>, <<"F","Y","-","2","0","2","5">>}

ExampleRevenueRow ==
    <<<<"T","O","T","A","L"," ","R","E","V","E","N","U","E">>, <<"1","0","0","0","0","0">>, <<"1","0">>, <<"1","2","0","0","0","0">>, <<"1","2">>>>

ExampleGrid ==
    << <<<<"P","A","R","T","I","C","U","L","A","R","S">>, <<"J","u","n","-","2","5">>, <<"%">>, <<"J","u","l","-","2","5">>, <<"%">>>>,
       ExampleRevenueRow >>

\* A header row over a TOTAL REVENUE row
HeaderGrids ==
    {<< <<<<"P","A","R","T","I","C","U","L","A","R","S">>>> \o h, ExampleRevenueRow >> :
        h \in SeqsUpTo(HeaderCellSet, MaxHeaderCells)} \cup {ExampleGrid}

\* A metric row of one outlet block, absent when the value is NULL
MetricRow(label, value) ==
    IF value = NULL THEN <<>> ELSE << <<label, value, <<"1">>>> >>

\* One outlet block with or without the interest components and Finance Cost
FinanceGrids ==
    {<< <<<<"P","A","R","T","I","C","U","L","A","R","S">>, <<"J","u","n","-","2","5">>, <<"%">>>> >>
       \o MetricRow(M_BankCharges, b) \o MetricRow(M_InterestOnBorrowings, w)
       \o MetricRow(M_InterestOnVehicleLoan, v) \o MetricRow(M_MG, m)
       \o MetricRow(M_FinanceCost, f) :
        b \in {NULL, <<"1","0","0","0">>}, w \in {NULL, <<"2","0","0","0">>}, v \in {NULL, <<"5","0","0">>},
        m \in {NULL, <<"0">>}, f \in {NULL, <<"0">>, <<"9","0","0">>}}

\* Outlet names over a header without month pairs over a TOTAL REVENUE row
LooseNames == {NULL, <<"S","t","o","r","e"," ","A">>, <<"C","o","n","s","o","l","i","d","a","t","e","d">>, <<"G","R","A","N","D"," ","T","O","T","A","L">>}

LooseGrids ==
    {<< <<NULL, n1, n2>>,
        <<<<"P","A","R","T","I","C","U","L","A","R","S">>, <<"A","m","o","u","n","t">>, <<"S","h","a","r","e">>>>,
        <<<<"T","O","T","A","L"," ","R","E","V","E","N","U","E">>, v1, v2>> >> :
        n1 \in LooseNames, n2 \in LooseNames,
        v1 \in {<<"1","0","0">>, <<"0">>}, v2 \in {<<"2","5","0">>, <<"0">>}}

\* A row-per-outlet header, blank rows, and a transposed header below them
TallGrid(blanks) ==
    << <<<<"O","u","t","l","e","t"," ","N","a","m","e">>, <<"O","u","t","l","e","t"," ","M","a","n","a","g","e","r">>, <<"M","o","n","t","h">>, <<"D","i","r","e","c","t"," ","I","n","c","o","m","e">>,
         <<"T","O","T","A","L"," ","R","E","V","E","N","U","E">>>> >>
    \o [i \in 1..blanks |-> BlankRow]
    \o ExampleGrid

\* The transposed header is the last row detectOutletWiseFormat scans, or the
\* first it does not
TallGrids == {TallGrid(DetectScanRows - 2), TallGrid(DetectScanRows - 1)}

\* Outlet names over a header with a month pair over a TOTAL REVENUE row
StrictGrids ==
    {<< <<NULL, n, NULL>>,
        <<<<"P","A","R","T","I","C","U","L","A","R","S">>, <<"J","u","n","-","2","5">>, <<"%">>>>,
        <<<<"T","O","T","A","L"," ","R","E","V","E","N","U","E">>, <<"1","0","0">>, <<"1","0">>>> >> : n \in LooseNames}

Grids ==
    ReportGrids \cup HeaderGrids \cup FinanceGrids \cup LooseGrids \cup TallGrids
    \cup StrictGrids

(***************************************************************************)
(* The extraction, called on one grid, possibly again on a later day. The  *)
(* calls made on one grid are calls of one function: a copy of the         *)
(* component has one local pipeline.                                       *)
(***************************************************************************)
\* The user-visible messages of setError; detail is the interpolated part
NoError == [msg |-> "", detail |-> <<>>]
Message(msg) == [msg |-> msg, detail |-> <<>>]

\* The state of the component after construction
Mounted ==
    /\ files = <<>>
    /\ pc = <<>>
    /\ error = NoError
    /\ isProcessing = FALSE
    /\ uploadedFiles = <<>>
    /\ delivered = <<>>
    /\ log = <<>>

InitExtract ==
    /\ grid \in Grids
    /\ filename \in Filenames
    /\ today = Dates[1]
    /\ calls = <<>>
    /\ Mounted

\* The month-% pairs the strict scan of processOutletWiseWorksheet finds
WorksheetBlocks(rawData) ==
    LET hdr == WorksheetHeader(rawData)
        outlets == StrictOutlets(rawData, hdr.headerRowIndex,
                                 hdr.particularsColIndex + 1, <<>>)
    IN [k \in 1..Len(outlets) |->
           [index |-> outlets[k].index, month |-> outlets[k].month]]

\* The outletBlocks of processOutletWiseData, <<>> when it returns before step 4
RECURSIVE DataBlocksFrom(_, _, _)
DataBlocksFrom(headerRowData, partCol, i) ==
    IF i >= Len(headerRowData) - 1 THEN <<>>
    ELSE (IF i \in OutletBlocks(headerRowData, partCol)
          THEN <<[index |-> i, month |-> normStr(At(headerRowData, i))]>>
          ELSE <<>>)
         \o DataBlocksFrom(headerRowData, partCol, i + 1)

DataBlocks(rawData) ==
    LET hdr == detectHeader(rawData)
    IN IF hdr.hdrRow = -1 \/ MetricsData(rawData, hdr.hdrRow, hdr.partCol) = <<>>
       THEN <<>>
       ELSE DataBlocksFrom(Row(rawData, hdr.hdrRow), hdr.partCol, hdr.partCol + 1)

\* await processFinancialReport(rawData, file.name)
RunFinancialReport ==
    /\ Len(calls) < MaxCalls
    /\ \A k \in DOMAIN calls : calls[k].fn = "processFinancialReport"
    /\ \E report \in {FinancialReport(grid, filename, today)} :
           calls' = Append(calls,
               [fn |-> "processFinancialReport",
                date |-> today,
                route |-> report.route,
                blocks |-> IF report.route = "outletWise"
                           THEN WorksheetBlocks(grid) ELSE <<>>,
                out |-> report.out])
    /\ UNCHANGED <<grid, filename, today, uploadVars>>

\* await processOutletWiseWorksheet(rawData, filename)
RunOutletWiseWorksheet ==
    /\ Len(calls) < MaxCalls
    /\ \A k \in DOMAIN calls : calls[k].fn = "processOutletWiseWorksheet"
    /\ calls' = Append(calls,
           [fn |-> "processOutletWiseWorksheet",
            date |-> today,
            route |-> "outletWise",
            blocks |-> WorksheetBlocks(grid),
            out |-> processOutletWiseWorksheet(grid, filename, today)])
    /\ UNCHANGED <<grid, filename, today, uploadVars>>

\* await processOutletWiseData(rawData, file.name)
RunOutletWiseData ==
    /\ Len(calls) < MaxCalls
    /\ \A k \in DOMAIN calls : calls[k].fn = "processOutletWiseData"
    /\ calls' = Append(calls,
           [fn |-> "processOutletWiseData",
            date |-> today,
            route |-> "outletWiseData",
            blocks |-> DataBlocks(grid),
            out |-> processOutletWiseData(grid, filename, today)])
    /\ UNCHANGED <<grid, filename, today, uploadVars>>

\* Midnight (UTC) passes
Tick ==
    /\ \E k \in 1..(Len(Dates) - 1) : today = Dates[k] /\ today' = Dates[k + 1]
    /\ UNCHANGED <<extractVars, uploadVars>>

NextExtract ==
    \/ RunFinancialReport
    \/ RunOutletWiseWorksheet
    \/ RunOutletWiseData
    \/ Tick

SpecExtract == InitExtract /\ [][NextExtract]_vars

(***************************************************************************)
(* The extraction, called on a transposed report of one outlet block       *)
(***************************************************************************)
MaxMetricRows == 3

\* Rows below a transposed header: labels in the vocabulary's own spelling or
\* another one, labels matching one entry or several, the same entry twice
MetricRowSet ==
    { <<<<"T","o","t","a","l"," ","R","e","v","e","n","u","e">>, <<"1","0","0">>, <<"1">>>>,
      <<<<"R","e","v","e","n","u","e">>, <<"2","5","0">>, <<"2">>>>,
      <<<<"N","e","t"," ","E","B","I","D","T","A"," ","/"," ","P","B","T">>, <<"4","0">>, <<"3">>>>,
      <<<<"F","i","n","a","n","c","e"," ","C","o","s","t">>, <<"9","0","0">>, <<"4">>>>,
      <<<<"F","i","n","a","n","c","e"," ","C","o","s","t">>, <<"0">>, <<"5">>>>,
      <<<<"0","1","-","B","a","n","k"," ","C","h","a","r","g","e","s">>, <<"1","0","0","0">>, <<"6">>>>,
      <<<<"h","e","l","l","o">>, <<"5">>, <<"7">>>> }

\* One outlet block over up to MaxMetricRows such rows, and the blank rows of
\* the sheet's range below them
MetricGrids ==
    {<< <<<<"P","A","R","T","I","C","U","L","A","R","S">>, <<"J","u","n","-","2","5">>, <<"%">>>> >> \o g
        \o <<BlankRow, BlankRow, BlankRow, BlankRow>> :
        g \in SeqsUpTo(MetricRowSet, MaxMetricRows)}

InitMetrics ==
    /\ grid \in MetricGrids
    /\ filename \in Filenames
    /\ today = Dates[1]
    /\ calls = <<>>
    /\ Mounted

SpecMetrics == InitMetrics /\ [][NextExtract]_vars

(***************************************************************************)
(* The extraction, called on a row-per-outlet report                       *)
(***************************************************************************)
MaxOutletRows == 2

\* A title row of the sheet, above the header row
TitleRow == <<<<"R","e","g","i","o","n"," ","S","o","u","t","h">>, <<"F","Y">>, <<"2","0","2","5">>, <<"P","&","L">>, <<"I","N","R">>>>

\* Header rows: the outlet column first, or after a serial-number column
OutletHeaderRowSet ==
    { <<<<"O","u","t","l","e","t"," ","N","a","m","e">>, <<"O","u","t","l","e","t"," ","M","a","n","a","g","e","r">>, <<"M","o","n","t","h">>, <<"D","i","r","e","c","t"," ","I","n","c","o","m","e">>, <<"T","O","T","A","L"," ","R","E","V","E","N","U","E">>>>,
      <<<<"S","l">>, <<"O","u","t","l","e","t"," ","N","a","m","e">>, <<"O","u","t","l","e","t"," ","M","a","n","a","g","e","r">>, <<"M","o","n","t","h">>, <<"T","O","T","A","L"," ","R","E","V","E","N","U","E">>>> }

\* Rows below the header: outlets, an aggregate, a short row, an unnamed row
OutletRowSet ==
    { <<<<"S","t","o","r","e"," ","A">>, <<"R","a","v","i">>, <<"J","u","n","-","2","5">>, <<"5","0">>, <<"1","2","0">>>>,
      <<<<"F","a","c","t","o","r","y"," ","O","u","t","l","e","t">>, <<"A","s","h","a">>, <<"J","u","n","-","2","5">>, <<"3","0">>, <<"8","0">>>>,
      <<<<"C","o","n","s","o","l","i","d","a","t","e","d">>, NULL, <<"J","u","n","-","2","5">>, <<"8","0">>, <<"2","0","0">>>>,
      <<<<"S","t","o","r","e"," ","B">>, <<"R","a","v","i">>>>,
      <<NULL, <<"R","a","v","i">>, <<"J","u","n","-","2","5">>, <<"1">>, <<"2">>>> }

OutletRowGrids ==
    {top \o <<h>> \o g :
        top \in {<<>>, <<TitleRow>>, <<TitleRow, TitleRow>>},
        h \in OutletHeaderRowSet,
        g \in SeqsUpTo(OutletRowSet, MaxOutletRows)}

InitOutletRows ==
    /\ grid \in OutletRowGrids
    /\ filename \in Filenames
    /\ today = Dates[1]
    /\ calls = <<>>
    /\ Mounted

SpecOutletRows == InitOutletRows /\ [][NextExtract]_vars

(***************************************************************************)
(* detectOutletWiseFormat, called on one grid                              *)
(***************************************************************************)
MaxLabelRows == 5

\* First cells of a row: metric labels, a label holding two metrics, the
\* PARTICULARS label, unrelated text
LabelCells ==
    {<<"C","O","G","S">>, <<"P","B","T">>, <<"W","a","s","t","a","g","e">>, <<"T","o","t","a","l"," ","R","e","v","e","n","u","e">>,
      <<"E","B","I","T","D","A"," ","/"," ","P","B","T">>, <<"P","a","r","t","i","c","u","l","a","r","s">>, <<"h","e","l","l","o">>}

\* Grids of one label and one amount per row
LabelGrids ==
    {[i \in 1..n |-> <<cells[i], <<"1","0","0">>>>] :
        n \in {MaxLabelRows - 1, MaxLabelRows}, cells \in [1..MaxLabelRows -> LabelCells]}

\* Three metric rows below `blanks` blank rows
DeepLabelGrid(blanks) ==
    [i \in 1..blanks |-> BlankRow]
    \o << <<<<"C","O","G","S">>, <<"1","0","0">>>>, <<<<"P","B","T">>, <<"1","0","0">>>>, <<<<"W","a","s","t","a","g","e">>, <<"1","0","0">>>> >>

\* The metric rows are the last rows detectOutletWiseFormat scans, or the
\* first it does not
DeepLabelGrids == {DeepLabelGrid(DetectScanRows - 3), DeepLabelGrid(DetectScanRows)}

InitClassify ==
    /\ grid \in LabelGrids \cup DeepLabelGrids
    /\ filename \in Filenames
    /\ today = Dates[1]
    /\ calls = <<>>
    /\ Mounted

\* const isOutletWiseFormat = detectOutletWiseFormat(rawData)
RunDetectOutletWiseFormat ==
    /\ calls = <<>>
    /\ calls' = <<[fn |-> "detectOutletWiseFormat", date |-> today,
                   route |-> IF detectOutletWiseFormat(grid) THEN "outletWise"
                             ELSE "other",
                   blocks |-> <<>>, out |-> <<>>]>>
    /\ UNCHANGED <<grid, filename, today, uploadVars>>

NextClassify == RunDetectOutletWiseFormat

SpecClassify == InitClassify /\ [][NextClassify]_vars

(***************************************************************************)
(* detectHeader, called on one grid                                        *)
(***************************************************************************)
MaxAnchorRows == 2
MaxAnchorCells == 2

\* Cells of the rows detectHeader looks at: the label in mixed case and with
\* a no-break space, a longer label, month codes, a blank, other text
AnchorCells ==
    {<<"nbsp">> \o <<"P","a","r","t","i","c","u","l","a","r","s"," ">>, <<"P","a","r","t","i","c","u","l","a","r"," ","i","t","e","m","s">>, <<"J","u","n","-","2","5">>,
      <<"J","U","L","-","2","5",".","1">>, NULL, <<"x">>}

AnchorRows == SeqsUpTo(AnchorCells, MaxAnchorCells) \ {<<>>}

\* A longer label and, in the next row, the exact label, below blank rows
DeepAnchorGrid(blanks) ==
    [i \in 1..blanks |-> BlankRow]
    \o << <<<<"P","a","r","t","i","c","u","l","a","r"," ","i","t","e","m","s">>>>, <<<<"P","A","R","T","I","C","U","L","A","R","S">>>> >>

\* The exact label right of `blanks` blank cells, over a row with a month code
WideAnchorGrid(blanks) ==
    << [j \in 1..blanks |-> NULL] \o <<<<"P","A","R","T","I","C","U","L","A","R","S">>>>,
       <<NULL, <<"J","u","n","-","2","5">>>> >>

\* Grids of up to MaxAnchorRows rows, and grids whose label is the last cell
\* detectHeader scans or the first it does not
AnchorGrids ==
    SeqsUpTo(AnchorRows, MaxAnchorRows)
    \cup {DeepAnchorGrid(HeaderScanRows - 2), DeepAnchorGrid(HeaderScanRows - 1),
           WideAnchorGrid(HeaderScanCols - 1), WideAnchorGrid(HeaderScanCols)}

InitAnchor ==
    /\ grid \in AnchorGrids
    /\ filename \in Filenames
    /\ today = Dates[1]
    /\ calls = <<>>
    /\ Mounted

\* const { hdrRow, partCol } = detectHeader(rawData)
RunDetectHeader ==
    /\ calls = <<>>
    /\ calls' = <<[fn |-> "detectHeader", date |-> today, route |-> "",
                   blocks |-> <<>>, out |-> <<>>, hdr |-> detectHeader(grid)]>>
    /\ UNCHANGED <<grid, filename, today, uploadVars>>

NextAnchor == RunDetectHeader

SpecAnchor == InitAnchor /\ [][NextAnchor]_vars

(***************************************************************************)
(* getName, called on one grid at one reference cell                       *)
(***************************************************************************)
MaxNameRows == 2
MaxNameCols == 5

\* The name in row r, column c, a different one in every cell
NameAt(r, c) == <<UpperCaseLetters[r + 1], " ", Digits[c + 1], " ">>

\* An empty cell: null, or white space
BlankAt(r, c) == IF (r + c) % 2 = 0 THEN NULL ELSE <<" ", "nbsp">>

\* Rows of MaxNameCols cells, or of the first two of them, some with a name
NameGrids ==
    {[i \in 1..MaxNameRows |->
         [j \in 1..width[i] |->
            IF <<i - 1, j - 1>> \in filled THEN NameAt(i - 1, j - 1)
            ELSE BlankAt(i - 1, j - 1)]] :
        filled \in SUBSET ((0..(MaxNameRows - 1)) \X (0..(MaxNameCols - 1))),
        width \in [1..MaxNameRows -> {2, MaxNameCols}]}

\* A name in row 0 above `blanks` blank rows
TallNameGrid(blanks) ==
    << <<NameAt(0, 0), NULL>> >> \o [i \in 1..blanks |-> BlankRow]

\* The name is the last row getName reaches from the bottom row, or the
\* first it does not
TallNameGrids == {TallNameGrid(GetNameMaxUp), TallNameGrid(GetNameMaxUp + 1)}

InitName ==
    /\ grid \in NameGrids \cup TallNameGrids
    /\ filename \in Filenames
    /\ today = Dates[1]
    /\ calls = <<>>
    /\ Mounted

\* getName(rawData, outletRow, block.valIdx)
RunGetName ==
    /\ calls = <<>>
    /\ \E baseRow \in 0..(Len(grid) - 1), baseCol \in 0..(MaxNameCols - 1) :
           calls' = <<[fn |-> "getName", date |-> today, route |-> "",
                       blocks |-> <<>>, out |-> <<>>,
                       baseRow |-> baseRow, baseCol |-> baseCol,
                       name |-> getName(grid, baseRow, baseCol)]>>
    /\ UNCHANGED <<grid, filename, today, uploadVars>>

NextName == RunGetName

SpecName == InitName /\ [][NextName]_vars

(***************************************************************************)
(* cleanNumber, called on one cell                                         *)
(***************************************************************************)
MaxNumberLen == 3

\* The characters of a formatted amount
NumberChars == {"1", "2", "(", ")", "-", ".", ",", "₹"}

NumberBodies == SeqsUpTo(NumberChars, MaxNumberLen)

\* The cells cleanNumber is called on: formatted amounts, bare and in
\* parentheses, the amounts of the examples, blank cells and numbers
NumberInputs ==
    NumberBodies
    \cup {<<"(">> \o b \o <<")">> : b \in NumberBodies}
    \cup {<<"(","1",",","2","3","4",".","5",")">>, <<"₹","4","5",",","0","0","0">>, <<" ","1","2",".","5","0"," ">>, <<"J","u","n","-","2","5">>, NULL, <<>>, <<" ">>}
    \cup {Number(n) : n \in {-1500, 0, 1234500}}

InitNumber ==
    /\ grid \in {<< <<val>> >> : val \in NumberInputs}
    /\ filename \in Filenames
    /\ today = Dates[1]
    /\ calls = <<>>
    /\ Mounted

\* cleanNumber(row[colIdx])
RunCleanNumber ==
    /\ calls = <<>>
    /\ calls' = <<[fn |-> "cleanNumber", date |-> today, route |-> "",
                   blocks |-> <<>>, out |-> cleanNumber(grid[1][1])]>>
    /\ UNCHANGED <<grid, filename, today, uploadVars>>

NextNumber == RunCleanNumber

SpecNumber == InitNumber /\ [][NextNumber]_vars

(***************************************************************************)
(* The files a user can drop                                               *)
(***************************************************************************)
MaxFiles == 2

\* validTypes of validateFile
validTypes ==
    {"text/csv", "application/vnd.ms-excel",
     "application/vnd.openxmlformats-officedocument.spreadsheetml.sheet"}

\* 10MB limit
MaxFileSize == 10 * 1024 * 1024

\* A transposed report of one outlet
OutletWiseRows ==
    << <<<<"P","A","R","T","I","C","U","L","A","R","S">>, <<"J","u","n","-","2","5">>, <<"%">>>>,
       <<<<"T","O","T","A","L"," ","R","E","V","E","N","U","E">>, <<"1","0","0">>, <<"1","0">>>>,
       <<<<"E","B","I","D","T","A">>, <<"2","0">>, <<"2">>>>,
       BlankRow, BlankRow >>

\* A row-per-outlet report that has its header row and no outlet row
HeaderOnlyRows ==
    << <<<<"O","u","t","l","e","t"," ","N","a","m","e">>, <<"O","u","t","l","e","t"," ","M","a","n","a","g","e","r">>, <<"M","o","n","t","h">>, <<"D","i","r","e","c","t"," ","I","n","c","o","m","e">>,
         <<"T","O","T","A","L"," ","R","E","V","E","N","U","E">>>> >>

\* A row of a sales CSV with the required columns
SalesRow ==
    (K_Date :> <<"2","0","2","5","-","0","6","-","0","1">>) @@ (K_ProductName :> <<"L","a","d","d","u">>) @@
    (K_Category :> <<"S","w","e","e","t","s">>) @@ (K_Quantity :> <<"2">>) @@
    (K_TotalAmount :> <<"1","0","0">>)

ExcelFile(name, type, size, sheets) ==
    [name |-> name, type |-> type, size |-> size, sheets |-> sheets, data |-> <<>>]

CsvFile(name, type, data) ==
    [name |-> name, type |-> type, size |-> 1024, sheets |-> <<>>, data |-> data]

FileSet ==
    { ExcelFile(<<"s","a","l","e","s",".","x","l","s","x">>,
                "application/vnd.openxmlformats-officedocument.spreadsheetml.sheet",
                2048,
                << [name |-> <<"S","u","m","m","a","r","y">>, rows |-> <<BlankRow>>],
                   [name |-> <<"O","u","t","l","e","t"," ","w","i","s","e">>, rows |-> OutletWiseRows] >>),
      ExcelFile(<<"o","u","t","l","e","t","s",".","x","l","s","x">>,
                "application/vnd.openxmlformats-officedocument.spreadsheetml.sheet",
                2048, << [name |-> <<"S","h","e","e","t","1">>, rows |-> HeaderOnlyRows] >>),
      ExcelFile(<<"b","l","a","n","k",".","x","l","s">>, "application/vnd.ms-excel", 512,
                << [name |-> <<"S","h","e","e","t","1">>, rows |-> <<>>] >>),
      ExcelFile(<<"b","i","g",".","x","l","s","x">>,
                "application/vnd.openxmlformats-officedocument.spreadsheetml.sheet",
                MaxFileSize + 1, << [name |-> <<"S","h","e","e","t","1">>, rows |-> <<>>] >>),
      ExcelFile(<<"n","o","t","e","s",".","t","x","t">>, "text/plain", 10, <<>>),
      ExcelFile(<<"d","a","t","a",".","x","l","s","x">>, "", 2048,
                << [name |-> <<"S","h","e","e","t","1">>, rows |-> OutletWiseRows] >>),
      CsvFile(<<"s","a","l","e","s",".","c","s","v">>, "text/csv", <<SalesRow>>),
      CsvFile(<<"s","t","o","c","k",".","c","s","v">>, "", << (K_Date :> <<"2","0","2","5","-","0","6","-","0","1">>) @@ (K_Category :> <<"S","w","e","e","t","s">>) >>) }

\* What the backend can answer with success: true
BackendData == {<<>>, <<(K_Outlet :> <<"S","t","o","r","e"," ","A">>) @@ (M_TotalRevenue :> 100 * Unit)>>}

\* The ways the POST to /process-file can fail
BackendFailures == {"abort", "network", "http", "body_failed", "success_false"}

\* The failures that come after fetch resolved with response.ok: response.json()
\* rejects, or the result has success: false
BodyFailures == {"body_failed", "success_false"}

(***************************************************************************)
(* validateFile, processFile, handleDrop / handleFileSelect                *)
(***************************************************************************)
\* A variant of validateFile without the size limit
validateFileAnySize(file) ==
    LET isValidType == file.type \in validTypes \/ endsWith(file.name, <<".","c","s","v">>)
    IN IF ~isValidType THEN "Please upload a CSV or Excel file" ELSE ""

\* "" when the file is valid, else the message validateFile sets
validateFile(file) ==
    LET isValidType == file.type \in validTypes \/ endsWith(file.name, <<".","c","s","v">>)
        isValidSize == file.size <= MaxFileSize
    IN IF ~isValidType THEN "Please upload a CSV or Excel file"
       ELSE IF ~isValidSize THEN "File size must be less than 10MB"
       ELSE ""

IsExcelName(name) == endsWith(name, <<".","x","l","s","x">>) \/ endsWith(name, <<".","x","l","s">>)

\* processFile on one file, up to the first await of what it starts
processFile(st, file) ==
    IF validateFile(file) /= ""
    THEN [st EXCEPT !.error = Message(validateFile(file)),
                    !.pc = Append(@, "rejected"),
                    !.log = Append(@, <<"rejected">>)]
    ELSE [st EXCEPT !.isProcessing = TRUE,
                    !.error = NoError,
                    !.pc = Append(@, IF IsExcelName(file.name) THEN "backend"
                                     ELSE "parsing"),
                    !.log = Append(@, <<"accepted">>)]

\* files.forEach(processFile)
RECURSIVE ProcessFiles(_, _)
ProcessFiles(fs, st) ==
    IF fs = <<>> THEN st ELSE ProcessFiles(Tail(fs), processFile(st, Head(fs)))

Init ==
    /\ grid = <<>>
    /\ filename = <<>>
    /\ calls = <<>>
    /\ today \in {Dates[1]}
    /\ Mounted

\* handleDrop / handleFileSelect with the files taken from fileSet
handleDropOf(fileSet) ==
    \E fs \in SeqsUpTo(fileSet, MaxFiles) \ {<<>>} :
        /\ Len(files) + Len(fs) <= MaxFiles
        /\ LET st == ProcessFiles(fs, [error |-> error, isProcessing |-> isProcessing,
                                       pc |-> pc, log |-> log])
           IN /\ files' = files \o fs
              /\ pc' = st.pc
              /\ log' = st.log
              /\ error' = st.error
              /\ isProcessing' = st.isProcessing
        /\ UNCHANGED <<uploadedFiles, delivered, extractVars, today>>

handleDrop == handleDropOf(FileSet)

(***************************************************************************)
(* processExcelFile                                                        *)
(***************************************************************************)
\* setUploadedFiles(prev => [...prev, file.name]); onFileUpload(data, file.name);
\* setIsProcessing(false)
Deliver(i, data, event) ==
    /\ uploadedFiles' = Append(uploadedFiles, files[i].name)
    /\ delivered' = Append(delivered, [data |-> data, filename |-> files[i].name])
    /\ isProcessing' = FALSE
    /\ pc' = [pc EXCEPT ![i] = "done"]
    /\ log' = [log EXCEPT ![i] = Append(@, event)]
    /\ UNCHANGED <<files, error, extractVars, today>>

\* setError(msg); setIsProcessing(false)
Fail(i, err, event) ==
    /\ error' = err
    /\ isProcessing' = FALSE
    /\ pc' = [pc EXCEPT ![i] = "done"]
    /\ log' = [log EXCEPT ![i] = Append(@, event)]
    /\ UNCHANGED <<files, uploadedFiles, delivered, extractVars, today>>

\* setUploadedFiles(prev => [...prev, file.name]); onFileUpload(data, file.name)
\* throws inside the try of a reader or parser callback: the catch of the
\* callback runs setError(msg); setIsProcessing(false)
DeliverThrows(i, data, err, event) ==
    /\ uploadedFiles' = Append(uploadedFiles, files[i].name)
    /\ delivered' = Append(delivered, [data |-> data, filename |-> files[i].name])
    /\ error' = err
    /\ isProcessing' = FALSE
    /\ pc' = [pc EXCEPT ![i] = "done"]
    /\ log' = [log EXCEPT ![i] = Append(@, event)]
    /\ UNCHANGED <<files, extractVars, today>>

\* setUploadedFiles(prev => [...prev, file.name]); onFileUpload(data, file.name)
\* throws inside the inner try of the backend attempt: catch (backendError)
\* only warns, and reader.readAsArrayBuffer(file) is started
DeliverThrowsToFallback(i, data) ==
    /\ uploadedFiles' = Append(uploadedFiles, files[i].name)
    /\ delivered' = Append(delivered, [data |-> data, filename |-> files[i].name])
    /\ pc' = [pc EXCEPT ![i] = "reading"]
    /\ log' = [log EXCEPT ![i] = Append(@, "backend_threw")]
    /\ UNCHANGED <<files, error, isProcessing, extractVars, today>>

\* fetch resolved with response.ok: clearTimeout(timeoutId) runs, and
\* response.json() is awaited
BackendResponds(i) ==
    /\ pc[i] = "backend"
    /\ pc' = [pc EXCEPT ![i] = "body"]
    /\ UNCHANGED <<files, error, isProcessing, uploadedFiles, delivered, log,
                   extractVars, today>>

\* response.json() resolved with success: true; onFileUpload returns or throws
BackendSucceeds(i) ==
    /\ pc[i] = "body"
    /\ \E data \in BackendData :
          \/ Deliver(i, data, "backend")
          \/ DeliverThrowsToFallback(i, data)

\* A variant of BackendFallback that reports the failure to the user and stops
BackendFallbackSetsError(i, failure) ==
    /\ error' = [msg |-> "Backend processing failed", detail |-> <<>>]
    /\ isProcessing' = FALSE
    /\ pc' = [pc EXCEPT ![i] = "done"]
    /\ log' = [log EXCEPT ![i] = Append(@, failure)]
    /\ UNCHANGED <<files, uploadedFiles, delivered, extractVars, today>>

\* The request timed out, failed, was answered with an error status or with
\* success: false: the inner catch (or the else branch) only warns, and
\* reader.readAsArrayBuffer(file) is started
BackendFallback(i, failure) ==
    /\ pc' = [pc EXCEPT ![i] = "reading"]
    /\ log' = [log EXCEPT ![i] = Append(@, failure)]
    /\ UNCHANGED <<files, error, isProcessing, uploadedFiles, delivered,
                   extractVars, today>>

BackendFails(i) ==
    \E failure \in BackendFailures :
        /\ pc[i] = IF failure \in BodyFailures THEN "body" ELSE "backend"
        /\ BackendFallback(i, failure)

\* The sheet whose name contains 'outlet' and 'wise', else the first sheet
SelectSheet(sheets) ==
    LET hits == {k \in DOMAIN sheets :
                    /\ includes(toLowerCase(sheets[k].name), N_outlet)
                    /\ includes(toLowerCase(sheets[k].name), <<"w","i","s","e">>)}
    IN IF hits /= {} THEN sheets[SetMin(hits)] ELSE sheets[1]

\* reader.onload
ReaderOnload(i) ==
    /\ pc[i] = "reading"
    /\ \E processedData \in
           {processFinancialReport(SelectSheet(files[i].sheets).rows,
                                   files[i].name, today)} :
          IF Len(processedData) > 0
          THEN \/ Deliver(i, processedData, "local")
               \/ DeliverThrows(i, processedData,
                                Message("Error processing financial report: "),
                                "local_threw")
          ELSE Fail(i, Message("Could not extract meaningful data from the financial report. Please check the file format."),
                    "empty")

\* reader.onerror
ReaderOnerror(i) ==
    /\ pc[i] = "reading"
    /\ Fail(i, Message("Error reading Excel file."), "unreadable")

(***************************************************************************)
(* processCsvFile                                                          *)
(***************************************************************************)
requiredFields ==
    << [name |-> <<"D","a","t","e","/","M","o","n","t","h">>, options |-> {K_Date, K_Month}],
       [name |-> <<"P","r","o","d","u","c","t"," ","N","a","m","e">>, options |-> {K_ProductName, K_ItemName}],
       [name |-> <<"C","a","t","e","g","o","r","y">>, options |-> {K_Category}],
       [name |-> <<"Q","u","a","n","t","i","t","y">>, options |-> {K_Quantity, K_Qty}],
       [name |-> <<"T","o","t","a","l"," ","A","m","o","u","n","t">>, options |-> {K_TotalAmount, K_TotalSales}] >>

\* The names of the required fields none of whose options is a header
MissingFields(data) ==
    LET headers == IF data = <<>> THEN {} ELSE DOMAIN data[1]
    IN SelectSeq([k \in DOMAIN requiredFields |-> requiredFields[k].name],
                 LAMBDA n : \E k \in DOMAIN requiredFields :
                     /\ requiredFields[k].name = n
                     /\ requiredFields[k].options \cap headers = {})

\* A variant of the complete callback that delivers whatever was parsed
CsvCompleteUnchecked(i) ==
    /\ pc[i] = "parsing"
    /\ Deliver(i, files[i].data, "csv")

\* Papa.parse complete
CsvComplete(i) ==
    /\ pc[i] = "parsing"
    /\ IF MissingFields(files[i].data) /= <<>>
       THEN Fail(i, [msg |-> "Missing required columns: ",
                     detail |-> MissingFields(files[i].data)], "missing")
       ELSE \/ Deliver(i, files[i].data, "csv")
            \/ DeliverThrows(i, files[i].data,
                             Message("Error processing file. Please check the format."),
                             "csv_threw")

\* Papa.parse error
CsvError(i) ==
    /\ pc[i] = "parsing"
    /\ Fail(i, Message("Error parsing file: "), "unparsable")

\* removeFile
removeFile ==
    \E name \in {uploadedFiles[k] : k \in DOMAIN uploadedFiles} :
        /\ uploadedFiles' = SelectSeq(uploadedFiles, LAMBDA f : f /= name)
        /\ UNCHANGED <<files, pc, error, isProcessing, delivered, log,
                       extractVars, today>>

Next ==
    \/ handleDrop
    \/ \E i \in DOMAIN files : BackendResponds(i)
    \/ \E i \in DOMAIN files : BackendSucceeds(i)
    \/ \E i \in DOMAIN files : BackendFails(i)
    \/ \E i \in DOMAIN files : ReaderOnload(i)
    \/ \E i \in DOMAIN files : ReaderOnerror(i)
    \/ \E i \in DOMAIN files : CsvComplete(i)
    \/ \E i \in DOMAIN files : CsvError(i)
    \/ removeFile

Spec == Init /\ [][Next]_vars

(***************************************************************************)
(* Scheduling: what the browser is bound to run                            *)
(***************************************************************************)
\* setTimeout(() => controller.abort(), 5000): the timer fires while fetch is
\* still pending, fetch rejects with an AbortError and the fallback starts
AbortTimeout(i) ==
    /\ i \in DOMAIN files
    /\ pc[i] = "backend"
    /\ BackendFallback(i, "abort")

\* reader.readAsArrayBuffer(file) ends with onload or with onerror: the steps
\* of ReaderOnload(i) and ReaderOnerror(i) are the ones that take the file from
\* reading to done, whatever the handler then does to the rest of the state
ReaderCallback(i) ==
    /\ i \in DOMAIN files
    /\ pc[i] = "reading"
    /\ pc' = [pc EXCEPT ![i] = "done"]

\* Papa.parse ends with complete or with error
ParserCallback(i) ==
    /\ i \in DOMAIN files
    /\ (CsvComplete(i) \/ CsvError(i))

\* The pending reader and parser callbacks are fired; nothing is assumed of
\* the backend
CallbackFairness ==
    \A i \in 1..MaxFiles : WF_pc(ReaderCallback(i)) /\ WF_vars(ParserCallback(i))

\* The files dropped where completion is examined: a spreadsheet with
\* outlets, one without any row, a text file and a CSV
LiveFileSet ==
    {f \in FileSet : f.name \in {<<"s","a","l","e","s",".","x","l","s","x">>,
                                 <<"b","l","a","n","k",".","x","l","s">>,
                                 <<"n","o","t","e","s",".","t","x","t">>,
                                 <<"s","a","l","e","s",".","c","s","v">>}}

handleDropLive == handleDropOf(LiveFileSet)

NextLive ==
    \/ handleDropLive
    \/ \E i \in DOMAIN files : BackendResponds(i)
    \/ \E i \in DOMAIN files : BackendSucceeds(i)
    \/ \E i \in DOMAIN files : BackendFails(i)
    \/ \E i \in DOMAIN files : ReaderOnload(i)
    \/ \E i \in DOMAIN files : ReaderOnerror(i)
    \/ \E i \in DOMAIN files : CsvComplete(i)
    \/ \E i \in DOMAIN files : CsvError(i)
    \/ removeFile

\* The component with the request timeout, under the browser's scheduling
SpecLive ==
    /\ Init /\ [][NextLive]_vars
    /\ CallbackFairness
    /\ \A i \in 1..MaxFiles : WF_vars(AbortTimeout(i))

(***************************************************************************)
(* The component with the processWithBackend that has no AbortController   *)
(***************************************************************************)
\* The POST failed: no timer exists that could abort it
BackendFailsUntimed(i) ==
    \E failure \in BackendFailures \ {"abort"} :
        /\ pc[i] = IF failure \in BodyFailures THEN "body" ELSE "backend"
        /\ BackendFallback(i, failure)

NextUntimed ==
    \/ handleDropLive
    \/ \E i \in DOMAIN files : BackendResponds(i)
    \/ \E i \in DOMAIN files : BackendSucceeds(i)
    \/ \E i \in DOMAIN files : BackendFailsUntimed(i)
    \/ \E i \in DOMAIN files : ReaderOnload(i)
    \/ \E i \in DOMAIN files : ReaderOnerror(i)
    \/ \E i \in DOMAIN files : CsvComplete(i)
    \/ \E i \in DOMAIN files : CsvError(i)
    \/ removeFile

SpecUntimed == Init /\ [][NextUntimed]_vars

SpecUntimedLive == SpecUntimed /\ CallbackFairness

(***************************************************************************)
(* Properties                                                              *)
(***************************************************************************)
Last(s) == s[Len(s)]
Range(s) == {s[i] : i \in DOMAIN s}

\* The calls of one function
CallsOf(fns) == {k \in DOMAIN calls : calls[k].fn \in fns}

\* C1 (never-empty): every call of processFinancialReport, whatever the grid,
\* returns at least one record.
C1_NeverEmpty ==
    \A k \in CallsOf({"processFinancialReport"}) : Len(calls[k].out) >= 1

\* C2 (remote fallback): whenever the backend attempt of an Excel file fails
\* (abort, network error, error status, success: false), the step that handles
\* the failure starts the local reading of the same file and changes neither
\* the error nor what was delivered; and a file that is done after a backend
\* failure was finished by the local path.
C2_RemoteFallback ==
    [][\A i \in DOMAIN files :
         /\ (pc[i] \in {"backend", "body"} /\ pc'[i] \notin {"backend", "body"}
               /\ Last(log'[i]) \in BackendFailures)
            => /\ pc'[i] = "reading"
               /\ files'[i] = files[i]
               /\ error' = error
               /\ delivered' = delivered
               /\ uploadedFiles' = uploadedFiles
         /\ (i \in DOMAIN log' /\ pc'[i] = "done"
               /\ Range(log'[i]) \cap BackendFailures /= {})
            => Last(log'[i]) \in {"local", "local_threw", "empty", "unreadable"}]_vars

\* A file whose backend attempt failed was extracted locally and delivered,
\* and no error is shown
C2_Witness ==
    \E i \in DOMAIN files :
        /\ pc[i] = "done"
        /\ Range(log[i]) \cap BackendFailures /= {}
        /\ Last(log[i]) = "local"
        /\ error = NoError
        /\ \E d \in DOMAIN delivered : delivered[d].filename = files[i].name

\* C3 (extraction shortfall is not an error): reader.onload of a spreadsheet,
\* in particular of one in which the extraction finds no outlet, never sets
\* the error and completes the upload by delivering records to onFileUpload.
C3_ShortfallDelivers ==
    [][\A i \in DOMAIN files :
         (pc[i] = "reading" /\ pc'[i] = "done" /\ Last(log'[i]) /= "unreadable")
         => /\ error' = error
            /\ Len(delivered') = Len(delivered) + 1
            /\ Len(Last(delivered').data) >= 1]_vars

\* The fields of a record that hold amounts
NumericKeys ==
    {K_TotalAmount, K_Quantity, K_UnitPrice, K_DiscountPct, K_GSTPct,
     K_GrossAmount, M_PBT, K_EBITDA, K_Percentage, K_TotalSales, K_Qty}

IsPlaceholder(r) ==
    /\ K_Outlet \in DOMAIN r
    /\ r[K_Outlet] = V_SampleOutlet

\* C4 (placeholder form): a whole local pipeline (processFinancialReport, or
\* processOutletWiseData in the outlet-wise variant) never returns an empty
\* array; when it found nothing it returns exactly one record, with Outlet
\* 'Sample Outlet', Outlet Manager 'Sample Manager' and every amount 0.
C4_PlaceholderForm ==
    \A k \in CallsOf({"processFinancialReport", "processOutletWiseData"}) :
        /\ calls[k].out /= <<>>
        /\ \A j \in DOMAIN calls[k].out :
               IsPlaceholder(calls[k].out[j])
               => /\ Len(calls[k].out) = 1
                  /\ calls[k].out[j][K_OutletManager] = V_SampleManager
                  /\ \A key \in NumericKeys \cap DOMAIN calls[k].out[j] :
                         calls[k].out[j][key] = 0

\* C5 (idempotence, as stated): two calls of the same extraction on the same
\* grid and filename return identical record sequences, whenever they are made.
C5_Idempotent ==
    \A j \in DOMAIN calls, k \in DOMAIN calls :
        calls[j].fn = calls[k].fn => calls[j].out = calls[k].out

\* The records have the same fields and differ at most in Date and Month
SameButDates(a, b) ==
    /\ DOMAIN a = DOMAIN b
    /\ \A key \in DOMAIN a : key \notin {K_Date, K_Month} => a[key] = b[key]

\* C5 (idempotence, amended): two calls of the same extraction on the same
\* grid and filename return sequences of the same length whose records have
\* the same fields and agree on every field but Date and Month; Date is the
\* day of the call, and Month is the same in both or the day of the call.
C5_IdempotentUpToDate ==
    \A j \in DOMAIN calls, k \in DOMAIN calls :
        calls[j].fn = calls[k].fn
        => /\ Len(calls[j].out) = Len(calls[k].out)
           /\ \A n \in DOMAIN calls[j].out :
                  /\ SameButDates(calls[j].out[n], calls[k].out[n])
                  /\ calls[j].out[n][K_Date] = calls[j].date
                  /\ \/ calls[j].out[n][K_Month] = calls[k].out[n][K_Month]
                     \/ /\ calls[j].out[n][K_Month] = calls[j].date
                        /\ calls[k].out[n][K_Month] = calls[k].date

\* The same extraction ran on two different days and returned records
C5_Witness ==
    \E j \in DOMAIN calls, k \in DOMAIN calls :
        /\ calls[j].fn = calls[k].fn
        /\ calls[j].date /= calls[k].date
        /\ Len(calls[j].out) >= 1
        /\ calls[j].out /= calls[k].out

\* a[x] === a[y] for fields that may be missing (undefined)
SameField(r, x, y) ==
    \/ x \notin DOMAIN r /\ y \notin DOMAIN r
    \/ x \in DOMAIN r /\ y \in DOMAIN r /\ r[x] = r[y]

\* C6 (alias consistency): every record any pipeline returns, the placeholder
\* included, has EBITDA equal to EBIDTA, and Total Sales equal to TOTAL
\* REVENUE whenever TOTAL REVENUE is present.
C6_AliasConsistency ==
    \A k \in DOMAIN calls : \A j \in DOMAIN calls[k].out :
        /\ SameField(calls[k].out[j], K_EBITDA, M_EBIDTA)
        /\ M_TotalRevenue \in DOMAIN calls[k].out[j]
           => SameField(calls[k].out[j], K_TotalSales, M_TotalRevenue)

\* No cell of the grid is a label that matches 'Finance Cost'
NoFinanceCostRow(rawData) ==
    \A i \in DOMAIN rawData : \A j \in DOMAIN rawData[i] :
        LET label == toUpperCase(trim(Str(rawData[i][j])))
        IN ~(/\ label /= <<>>
             /\ \/ includes(label, toUpperCase(M_FinanceCost))
                \/ includes(toUpperCase(M_FinanceCost), label))

\* C7 (derived Finance Cost): in a transposed pipeline, when no row matched
\* 'Finance Cost', every record's Finance Cost is the sum of its 01-Bank
\* Charges, 02-Interest on Borrowings, 03-Interest on Vehicle Loan and 04-MG,
\* each 0 when absent.
C7_DerivedFinanceCost ==
    \A k \in CallsOf({"processOutletWiseWorksheet", "processOutletWiseData"}) :
        NoFinanceCostRow(grid)
        => \A j \in DOMAIN calls[k].out :
               /\ M_FinanceCost \in DOMAIN calls[k].out[j]
               /\ calls[k].out[j][M_FinanceCost] =
                      GetOr0(calls[k].out[j], M_BankCharges)
                      + GetOr0(calls[k].out[j], M_InterestOnBorrowings)
                      + GetOr0(calls[k].out[j], M_InterestOnVehicleLoan)
                      + GetOr0(calls[k].out[j], M_MG)

\* The columns at which a call started a block, and the labels of its blocks
Starts(k) == {calls[k].blocks[j].index : j \in DOMAIN calls[k].blocks}
Labels(k) == [j \in DOMAIN calls[k].blocks |-> calls[k].blocks[j].month]

\* The rule as stated: cell c is a month (or contains '-2') and cell c+1 is
\* '%' or matches ^%(\.\d+)?$
StatedPair(cell, next) ==
    /\ monthPattern(cell) \/ includes(cell, <<"-","2">>)
    /\ next = <<"%">> \/ pctPattern(next)

\* C8 (month-pair detection, as stated): in both transposed pipelines a header
\* column right of the anchor starts a block if and only if the stated rule
\* holds of it and its right neighbour.
C8_MonthPairIff ==
    /\ \A k \in CallsOf({"processOutletWiseWorksheet"}) :
           LET hdr == WorksheetHeader(grid)
               row == Row(grid, hdr.headerRowIndex)
           IN row /= NULL
              => \A c \in (hdr.particularsColIndex + 1)..(Len(row) - 1) :
                     c \in Starts(k)
                     <=> StatedPair(trim(Str(At(row, c))), trim(Str(At(row, c + 1))))
    /\ \A k \in CallsOf({"processOutletWiseData"}) :
           LET hdr == detectHeader(grid)
               row == Row(grid, hdr.hdrRow)
           IN (hdr.hdrRow /= -1 /\ MetricsData(grid, hdr.hdrRow, hdr.partCol) /= <<>>)
              => \A c \in (hdr.partCol + 1)..(Len(row) - 1) :
                     c \in Starts(k)
                     <=> StatedPair(normStr(At(row, c)), normStr(At(row, c + 1)))

\* C8 (month-pair detection, amended): in processOutletWiseWorksheet a header
\* column c right of the anchor starts a block if and only if column c-1 did
\* not start one, cell c matches ^[A-Za-z]+-\d{2}$ or contains '-2', and cell
\* c+1 contains '%'; in processOutletWiseData, once a metric row is found, if
\* and only if cell c matches ^[A-Za-z]+-\d{2}(\.\d+)?$ and cell c+1 matches
\* ^%(\.\d+)?$. In both the blocks are in column order, one per such column,
\* labelled by cell c, and the header PARTICULARS, Jun-25, %, Jul-25, % over a
\* TOTAL REVENUE row gives exactly the blocks Jun-25 and Jul-25.
C8_MonthPairRule ==
    /\ \A k \in CallsOf({"processOutletWiseWorksheet"}) :
           LET hdr == WorksheetHeader(grid)
               row == Row(grid, hdr.headerRowIndex)
               cell(c) == trim(Str(At(row, c)))
           IN row /= NULL
              => /\ \A c \in (hdr.particularsColIndex + 1)..(Len(row) - 1) :
                        c \in Starts(k)
                        <=> /\ (c - 1) \notin Starts(k)
                            /\ monthPattern(cell(c)) \/ includes(cell(c), <<"-","2">>)
                            /\ includes(cell(c + 1), <<"%">>)
                 /\ \A j \in DOMAIN calls[k].blocks :
                        /\ calls[k].blocks[j].index > hdr.particularsColIndex
                        /\ calls[k].blocks[j].index < Len(row)
                        /\ calls[k].blocks[j].month = cell(calls[k].blocks[j].index)
    /\ \A k \in CallsOf({"processOutletWiseData"}) :
           LET hdr == detectHeader(grid)
               row == Row(grid, hdr.hdrRow)
               cell(c) == normStr(At(row, c))
           IN (hdr.hdrRow /= -1 /\ MetricsData(grid, hdr.hdrRow, hdr.partCol) /= <<>>)
              => /\ \A c \in (hdr.partCol + 1)..(Len(row) - 1) :
                        c \in Starts(k)
                        <=> /\ monthPatternData(cell(c))
                            /\ pctPattern(cell(c + 1))
                 /\ \A j \in DOMAIN calls[k].blocks :
                        /\ calls[k].blocks[j].index > hdr.partCol
                        /\ calls[k].blocks[j].index < Len(row)
                        /\ calls[k].blocks[j].month = cell(calls[k].blocks[j].index)
    /\ \A k \in CallsOf({"processOutletWiseWorksheet", "processOutletWiseData"}) :
           /\ \A i \in DOMAIN calls[k].blocks, j \in DOMAIN calls[k].blocks :
                  i < j => calls[k].blocks[i].index < calls[k].blocks[j].index
           /\ grid = ExampleGrid => Labels(k) = <<<<"J","u","n","-","2","5">>, <<"J","u","l","-","2","5">>>>

\* processOutletWiseWorksheet started a block at a column whose right
\* neighbour contains '%' without being '%' or '%' with a decimal suffix
C8_Witness ==
    \E k \in CallsOf({"processOutletWiseWorksheet"}) :
        \E c \in Starts(k) :
            LET next == trim(Str(At(Row(grid, WorksheetHeader(grid).headerRowIndex),
                                    c + 1)))
            IN next /= <<"%">> /\ ~pctPattern(next) /\ Len(calls[k].out) >= 1

\* The name is one of a "Total" column, in any letter case
TotalLike(name) ==
    \/ includes(toLowerCase(name), <<"t","o","t","a","l">>)
    \/ includes(toLowerCase(name), <<"c","o","n","s","o","l","i","d","a","t","e","d">>)

\* The columns of the TOTAL REVENUE row the loose fallback may take: a number
\* other than 0 under a name that is not one of a "Total" column
LooseColumns(rawData) ==
    LET hdr == WorksheetHeader(rawData)
        revenueRow == RevenueRow(rawData, hdr.particularsColIndex)
        outletRow == OutletRow(rawData, hdr.headerRowIndex)
    IN IF revenueRow = NULL THEN {}
       ELSE {c \in (hdr.particularsColIndex + 1)..(Len(revenueRow) - 1) :
                /\ cleanNumber(At(revenueRow, c)) /= 0
                /\ ~TotalLike(Str(At(outletRow, c)))}

\* C9 (consolidated-column exclusion): when processOutletWiseWorksheet finds no
\* month-% pair and takes its columns from the Total Revenue row, no record has
\* an outlet name containing 'consolidated' or 'total' in any letter case, and
\* there is one record for each other column with a revenue.
C9_ConsolidatedExcluded ==
    \A k \in CallsOf({"processOutletWiseWorksheet"}) :
        calls[k].blocks = <<>>
        => /\ \A j \in DOMAIN calls[k].out : ~TotalLike(calls[k].out[j][K_Outlet])
           /\ Len(calls[k].out) = Cardinality(LooseColumns(grid))

\* The loose fallback ran on a grid with a Consolidated column that has a
\* revenue, and returned a record for another column
C9_Witness ==
    \E k \in CallsOf({"processOutletWiseWorksheet"}) :
        /\ calls[k].blocks = <<>>
        /\ Len(calls[k].out) >= 1
        /\ LET hdr == WorksheetHeader(grid)
               revenueRow == RevenueRow(grid, hdr.particularsColIndex)
               outletRow == OutletRow(grid, hdr.headerRowIndex)
           IN /\ revenueRow /= NULL
              /\ \E c \in (hdr.particularsColIndex + 1)..(Len(revenueRow) - 1) :
                     /\ cleanNumber(At(revenueRow, c)) /= 0
                     /\ includes(Str(At(outletRow, c)), <<"C","o","n","s","o","l","i","d","a","t","e","d">>)

\* A cell of the first `rows` rows and 10 columns contains 'particular'
HasParticularsLabel(rawData, rows) ==
    \E i \in 0..(Min(rows, Len(rawData)) - 1) :
        \E j \in 0..(Min(10, Len(Row(rawData, i))) - 1) :
            includes(LowerCell(rawData, i, j), <<"p","a","r","t","i","c","u","l","a","r">>)

\* One of the first rows is an outlet/manager header row with a metric label
HasOutletHeaderRow(rawData) ==
    /\ OutletBasedHeaderRow(rawData) /= -1
    /\ HasFinancialMetrics(Row(rawData, OutletBasedHeaderRow(rawData)))

WrongType(file) ==
    /\ file.type \notin {"text/csv", "application/vnd.ms-excel",
                         "application/vnd.openxmlformats-officedocument.spreadsheetml.sheet"}
    /\ ~endsWith(file.name, <<".","c","s","v">>)

TooLarge(file) == file.size > 10485760

\* C11 (validation rejection): a file of a wrong type or above 10 MB is
\* rejected by processFile: its error message is set (and shown unless a later
\* file of the same drop clears it), nothing is ever started for it (no backend
\* request, no parser, no delivery under its name), and a drop of rejected
\* files only leaves uploadedFiles, isProcessing and the deliveries unchanged.
C11_ValidationRejection ==
    [][\A i \in DOMAIN files' :
         (WrongType(files'[i]) \/ TooLarge(files'[i]))
         => /\ pc'[i] = "rejected"
            /\ log'[i] = <<"rejected">>
            /\ \A d \in DOMAIN delivered' : delivered'[d].filename /= files'[i].name
            /\ (i > Len(files) /\ i = Len(files'))
               => error' = Message(IF WrongType(files'[i])
                                   THEN "Please upload a CSV or Excel file"
                                   ELSE "File size must be less than 10MB")
            /\ (i > Len(files)
                  /\ \A j \in (Len(files) + 1)..Len(files') :
                         WrongType(files'[j]) \/ TooLarge(files'[j]))
               => /\ isProcessing' = isProcessing
                  /\ uploadedFiles' = uploadedFiles
                  /\ delivered' = delivered]_vars

\* A file above 10 MB was rejected while another file was being processed, and
\* the other file was then delivered
C11_Witness ==
    \E i \in DOMAIN files, j \in DOMAIN files :
        /\ TooLarge(files[i]) /\ ~WrongType(files[i])
        /\ pc[i] = "rejected"
        /\ pc[j] = "done"
        /\ \E d \in DOMAIN delivered : delivered[d].filename = files[j].name

\* The name ends in .csv, .xlsx or .xls and the size is at most 10 MB
Acceptable(file) ==
    /\ file.size <= 10485760
    /\ \/ endsWith(file.name, <<".","c","s","v">>)
       \/ endsWith(file.name, <<".","x","l","s","x">>)
       \/ endsWith(file.name, <<".","x","l","s">>)

\* C12 (input acceptance): every file of at most 10 MB whose name ends in
\* .csv, .xlsx or .xls passes validateFile whatever its MIME type, and goes to
\* the Excel path when the name ends in .xlsx or .xls, to the CSV path
\* otherwise.
C12_InputAcceptance ==
    \A i \in DOMAIN files :
        Acceptable(files[i])
        => /\ pc[i] /= "rejected"
           /\ Head(log[i]) = "accepted"
           /\ IF endsWith(files[i].name, <<".","x","l","s","x">>) \/ endsWith(files[i].name, <<".","x","l","s">>)
              THEN Range(log[i]) \cap {"csv", "csv_threw", "missing", "unparsable"} = {}
                   /\ pc[i] /= "parsing"
              ELSE Range(log[i]) \cap ({"backend", "backend_threw", "local",
                                        "local_threw", "empty", "unreadable"}
                                       \cup BackendFailures) = {}
                   /\ pc[i] \notin {"backend", "body", "reading"}

\* The header set has an option of each of the five required fields
CoversRequired(headers) ==
    /\ K_Date \in headers \/ K_Month \in headers
    /\ K_ProductName \in headers \/ K_ItemName \in headers
    /\ K_Category \in headers
    /\ K_Quantity \in headers \/ K_Qty \in headers
    /\ K_TotalAmount \in headers \/ K_TotalSales \in headers

\* The headers Papa.parse reports: the keys of the first row
CsvHeaders(file) == IF file.data = <<>> THEN {} ELSE DOMAIN file.data[1]

\* C13 (CSV validation is terminal): when the complete callback of a CSV whose
\* headers do not cover the five required fields runs, the error is set to the
\* missing-columns message, nothing is delivered, the filename is not added to
\* uploadedFiles, and the file is finished without the backend or the grid
\* pipeline ever having been tried for it.
C13_CsvTerminal ==
    [][\A i \in DOMAIN files :
         (/\ pc[i] = "parsing" /\ pc'[i] /= "parsing"
          /\ Last(log'[i]) /= "unparsable"
          /\ ~CoversRequired(CsvHeaders(files[i])))
         => /\ error'.msg = "Missing required columns: "
            /\ error'.detail /= <<>>
            /\ delivered' = delivered
            /\ uploadedFiles' = uploadedFiles
            /\ calls' = calls
            /\ isProcessing' = FALSE
            /\ pc'[i] = "done"
            /\ log'[i] = <<"accepted", "missing">>]_vars

\* A CSV without the required columns was finished with the missing-columns
\* error and nothing was delivered under its name
C13_Witness ==
    \E i \in DOMAIN files :
        /\ pc[i] = "done"
        /\ log[i] = <<"accepted", "missing">>
        /\ ~CoversRequired(CsvHeaders(files[i]))
        /\ error.msg = "Missing required columns: "
        /\ \A d \in DOMAIN delivered : delivered[d].filename /= files[i].name

\* The fields that identify a record
IdentityKeys == {K_Outlet, K_OutletManager, K_Month, K_UploadFilename}

\* C14 (identity fields): every record a local pipeline returns has the fields
\* Outlet, Outlet Manager, Month and Upload Filename, and its Upload Filename
\* is the filename the extraction was called with.
C14_IdentityFields ==
    \A k \in DOMAIN calls : \A j \in DOMAIN calls[k].out :
        /\ IdentityKeys \subseteq DOMAIN calls[k].out[j]
        /\ calls[k].out[j][K_UploadFilename] = filename

\* Each of the pipelines returned a record: the transposed one, the
\* row-per-outlet one, the generic one with a metric row, and the placeholder
C14_Witness ==
    \E k \in DOMAIN calls :
        /\ Len(calls[k].out) >= 1
        /\ calls[k].fn = "processFinancialReport"
        /\ calls[k].route = "cashierBased"
        /\ ~IsPlaceholder(calls[k].out[1])

\* The field names of the placeholder record, which local extraction returns
\* for the empty grid
PlaceholderShape == DOMAIN sampleRecord(filename, today)

\* C15 (identical record shape): every record local extraction returns,
\* whichever pipeline built it and whichever metric rows were found, has the
\* same set of field names, which is then the set of the placeholder record.
C15_IdenticalShape ==
    \A k \in CallsOf({"processFinancialReport"}) : \A j \in DOMAIN calls[k].out :
        DOMAIN calls[k].out[j] = PlaceholderShape

\* The characters that stand for nothing in an amount: thousands separators
\* and the currency sign
IsDecoration(c) == c \in {",", "₹", " "}

\* The string is digits and decorations only, with a digit among them
IsPlainAmount(s) ==
    /\ \A i \in DOMAIN s : IsDigit(s[i]) \/ IsDecoration(s[i])
    /\ \E i \in DOMAIN s : IsDigit(s[i])

\* The whole number the digits of the string spell, in thousandths
PlainAmount(s) == DigitsValue(SelectSeq(s, IsDigit)) * 1000

\* C16 (number normalization): cleanNumber returns a number unchanged; reads
\* an amount of digits, separators and currency sign as the number its digits
\* spell, and as its negative when the amount is in parentheses; gives 0 for a
\* cell without any digit; and gives -1234.5 for '(1,234.5)' and 45000 for
\* '₹45,000'.
C16_NumberNormalization ==
    \A k \in CallsOf({"cleanNumber"}) :
        LET val == grid[1][1]
            out == calls[k].out
        IN /\ IsNumber(val) => out = val[2]
           /\ (~IsNumber(val) /\ val /= NULL)
              => /\ IsPlainAmount(val) => out = PlainAmount(val)
                 /\ (/\ Len(val) >= 2 /\ val[1] = "(" /\ val[Len(val)] = ")"
                     /\ IsPlainAmount(SubSeq(val, 2, Len(val) - 1)))
                    => out = 0 - PlainAmount(SubSeq(val, 2, Len(val) - 1))
                 /\ (\A i \in DOMAIN val : ~IsDigit(val[i])) => out = 0
           /\ val = NULL => out = 0
           /\ val = <<"(","1",",","2","3","4",".","5",")">> => out = -1234500
           /\ val = <<"₹","4","5",",","0","0","0">> => out = 45000000

\* cleanNumber read an amount in parentheses as a negative number
C16_Witness ==
    \E k \in CallsOf({"cleanNumber"}) :
        /\ grid[1][1] = <<"(","1",",","2","3","4",".","5",")">>
        /\ calls[k].out = -1234500

\* The metrics vocabulary of the classifier
MetricsVocabulary ==
    {<<"d","i","r","e","c","t"," ","i","n","c","o","m","e">>, <<"t","o","t","a","l"," ","r","e","v","e","n","u","e">>, <<"c","o","g","s">>, <<"o","u","t","l","e","t"," ","e","x","p","e","n","s","e","s">>,
     <<"e","b","i","d","t","a">>, <<"e","b","i","t","d","a">>, <<"f","i","n","a","n","c","e"," ","c","o","s","t">>, <<"p","b","t">>, <<"w","a","s","t","a","g","e">>}

\* The entries of the vocabulary that occur in a cell of the first `rows`
\* rows and 10 columns
DistinctMetrics(rawData, rows) ==
    {m \in MetricsVocabulary :
        \E i \in 0..(Min(rows, Len(rawData)) - 1) :
            \E j \in 0..(Min(10, Len(Row(rawData, i))) - 1) :
                includes(LowerCell(rawData, i, j), m)}

\* C17 (classifier metric threshold): a grid without a 'particular' cell in
\* its first 30 rows and 10 columns is classified as transposed if and only if
\* at least 3 distinct entries of the metrics vocabulary occur in that window.
C17_MetricThreshold ==
    \A k \in CallsOf({"detectOutletWiseFormat"}) :
        ~HasParticularsLabel(grid, 30)
        => (calls[k].route = "outletWise"
            <=> Cardinality(DistinctMetrics(grid, 30)) >= 3)

\* The cell of row i, column j after normalization, in upper case
Normalized(i, j) == normUpper(At(Row(grid, i), j))

\* The cells of the first 50 rows and 20 columns of the grid
AnchorWindow ==
    {ij \in (0..(Min(50, Len(grid)) - 1)) \X (0..19) : ij[2] < Len(Row(grid, ij[1]))}

ExactLabels == {ij \in AnchorWindow : Normalized(ij[1], ij[2]) = <<"P","A","R","T","I","C","U","L","A","R","S">>}

LooseLabels == {ij \in AnchorWindow : includes(Normalized(ij[1], ij[2]), <<"P","A","R","T","I","C","U","L","A","R">>)}

\* ij is the first cell of the set, rows first
IsFirstOf(ij, cells) ==
    /\ ij \in cells
    /\ \A kl \in cells : ij[1] < kl[1] \/ (ij[1] = kl[1] /\ ij[2] <= kl[2])

\* A month code: letters, a dash, two digits, an optional decimal suffix
IsMonthCode(s) ==
    \E k \in 2..(Len(s) - 2) :
        /\ \A i \in 1..(k - 1) : IsLetter(s[i])
        /\ s[k] = "-" /\ IsDigit(s[k + 1]) /\ IsDigit(s[k + 2])
        /\ \/ Len(s) = k + 2
           \/ /\ Len(s) >= k + 4 /\ s[k + 3] = "."
              /\ \A i \in (k + 4)..Len(s) : IsDigit(s[i])

\* The number of month codes in row i
MonthCodes(i) ==
    Cardinality({j \in 0..(Len(Row(grid, i)) - 1) : IsMonthCode(Normalized(i, j))})

\* C18 (header location tiers): detectHeader returns the first cell of the
\* first 50 rows and 20 columns that equals 'PARTICULARS' after normalization,
\* whatever cells contain 'particular' before it; without such a cell, the
\* first cell that contains 'PARTICULAR'; without either, the earliest of the
\* rows with the most month codes and the first non-empty cell of that row;
\* and row -1 when no row has a month code.
C18_HeaderTiers ==
    \A k \in CallsOf({"detectHeader"}) :
        LET hdr == calls[k].hdr
            at == <<hdr.hdrRow, hdr.partCol>>
            rows == 0..(Min(50, Len(grid)) - 1)
        IN /\ ExactLabels /= {} => IsFirstOf(at, ExactLabels)
           /\ (ExactLabels = {} /\ LooseLabels /= {}) => IsFirstOf(at, LooseLabels)
           /\ (LooseLabels = {} /\ \E i \in rows : MonthCodes(i) > 0)
              => /\ hdr.hdrRow \in rows
                 /\ \A i \in rows : MonthCodes(i) <= MonthCodes(hdr.hdrRow)
                 /\ \A i \in rows : i < hdr.hdrRow => MonthCodes(i) < MonthCodes(hdr.hdrRow)
                 /\ Normalized(hdr.hdrRow, hdr.partCol) /= <<>>
                 /\ \A j \in 0..(hdr.partCol - 1) : Normalized(hdr.hdrRow, j) = <<>>
           /\ (LooseLabels = {} /\ \A i \in rows : MonthCodes(i) = 0)
              => hdr.hdrRow = -1

\* The exact label was returned although an earlier row has a cell that
\* contains 'particular'
C18_Witness ==
    \E k \in CallsOf({"detectHeader"}) :
        /\ <<calls[k].hdr.hdrRow, calls[k].hdr.partCol>> \in ExactLabels
        /\ \E ij \in LooseLabels : ij[1] < calls[k].hdr.hdrRow

\* No cell of the grid contains 'particular', in any letter case
NoParticularCell ==
    \A i \in DOMAIN grid : \A j \in DOMAIN grid[i] :
        ~includes(toLowerCase(Str(grid[i][j])), <<"p","a","r","t","i","c","u","l","a","r">>)

\* No cell of the grid is a month code
NoMonthCodeCell ==
    \A i \in DOMAIN grid : \A j \in DOMAIN grid[i] :
        ~IsMonthCode(normStr(grid[i][j]))

\* C19 (header not found): when no cell contains 'particular' and no row has
\* a month code, a transposed pipeline (processOutletWiseWorksheet,
\* processOutletWiseData) returns no record.
C19_HeaderNotFound ==
    \A k \in CallsOf({"processOutletWiseWorksheet", "processOutletWiseData"}) :
        (NoParticularCell /\ NoMonthCodeCell) => calls[k].out = <<>>

\* The column offsets in the order they are tried
ProbeOffsets == <<0, -1, 1, -2, 2>>

\* The cell a probe reads: up rows above the reference row, at the k-th offset
ProbeCell(call, up, k) ==
    normStr(At(Row(grid, call.baseRow - up), call.baseCol + ProbeOffsets[k]))

\* The probes that meet a non-empty cell inside the grid
NamedProbes(call) ==
    {p \in (0..8) \X (1..5) :
        /\ call.baseRow - p[1] >= 0
        /\ call.baseCol + ProbeOffsets[p[2]] >= 0
        /\ call.baseCol + ProbeOffsets[p[2]] < Len(Row(grid, call.baseRow - p[1]))
        /\ ProbeCell(call, p[1], p[2]) /= <<>>}

\* p is tried before q: a nearer row first, then the earlier offset
TriedBefore(p, q) == p[1] < q[1] \/ (p[1] = q[1] /\ p[2] <= q[2])

\* C20 (name resolution): getName returns the normalized cell of the first
\* probe that meets a non-empty cell, the probes going from the reference row
\* up to 8 rows above it, not above row 0, and in each row through the offsets
\* 0, -1, +1, -2, +2 that fall inside the row; it returns '' when no probe
\* meets a non-empty cell.
C20_NameResolution ==
    \A k \in CallsOf({"getName"}) :
        IF NamedProbes(calls[k]) = {}
        THEN calls[k].name = <<>>
        ELSE \E p \in NamedProbes(calls[k]) :
                 /\ \A q \in NamedProbes(calls[k]) : TriedBefore(p, q)
                 /\ calls[k].name = ProbeCell(calls[k], p[1], p[2])

\* getName took the name two columns left of the reference column in the
\* reference row, although the row above has a name in the reference column
C20_Witness ==
    \E k \in CallsOf({"getName"}) :
        /\ calls[k].baseRow = 1
        /\ calls[k].baseCol = 2
        /\ normStr(At(Row(grid, 0), 2)) /= <<>>
        /\ normStr(At(Row(grid, 1), 0)) /= <<>>
        /\ calls[k].name = normStr(At(Row(grid, 1), 0))
        /\ calls[k].name /= normStr(At(Row(grid, 0), 2))

\* The calls of a transposed pipeline that returned its records
TransposedCalls == {k \in DOMAIN calls : calls[k].route \in {"outletWise", "outletWiseData"}}

\* The header row and the label column the pipeline of call k works from
HeaderOf(k) ==
    IF calls[k].fn = "processOutletWiseData"
    THEN <<detectHeader(grid).hdrRow, detectHeader(grid).partCol>>
    ELSE <<WorksheetHeader(grid).headerRowIndex, WorksheetHeader(grid).particularsColIndex>>

\* The label of row i in the label column
LabelOf(hdr, i) == trim(Str(At(Row(grid, i), hdr[2])))

\* The vocabulary entries a label matches by containment in either direction
EntriesOf(label) ==
    {e \in DOMAIN requiredMetrics :
        \/ includes(toUpperCase(label), toUpperCase(requiredMetrics[e]))
        \/ includes(toUpperCase(requiredMetrics[e]), toUpperCase(label))}

\* The rows below the header whose label matches some vocabulary entry
MetricRowsOf(hdr) ==
    {i \in (hdr[1] + 1)..(Len(grid) - 1) :
        LabelOf(hdr, i) /= <<>> /\ EntriesOf(LabelOf(hdr, i)) /= {}}

\* The canonical vocabulary name of the label of row i
CanonicalOf(hdr, i) == requiredMetrics[SetMin(EntriesOf(LabelOf(hdr, i)))]

\* The rows below the header that match the vocabulary entry `metric`
RowsOfMetric(hdr, metric) == {i \in MetricRowsOf(hdr) : CanonicalOf(hdr, i) = metric}

\* The cleaned value of row i in the column of the j-th block of call k
BlockValue(k, j, i) == cleanNumber(At(Row(grid, i), calls[k].blocks[j].index))

\* C21 (canonical metric keys): in every record of the transposed pipeline,
\* each row below the header whose label matches a vocabulary entry is stored
\* under the canonical name of the first matching entry, with the cleaned
\* value of the block's column when no other row matches that entry, and the
\* record has no field named by a label that is not itself a canonical name.
C21_CanonicalKeys ==
    \A k \in TransposedCalls :
        LET hdr == HeaderOf(k)
        IN \A i \in MetricRowsOf(hdr) :
             LET label == LabelOf(hdr, i)
                 metric == CanonicalOf(hdr, i)
             IN \A j \in DOMAIN calls[k].out :
                  /\ metric \in DOMAIN calls[k].out[j]
                  /\ label \in DOMAIN calls[k].out[j] => label \in Range(requiredMetrics)
                  /\ (/\ Len(calls[k].blocks) = Len(calls[k].out)
                      /\ RowsOfMetric(hdr, metric) = {i})
                     => calls[k].out[j][metric] = BlockValue(k, j, i)

\* The calls of processOutletWiseWorksheet, alone or from processFinancialReport,
\* whose outlets all come from the strict scan
WorksheetCalls ==
    {k \in TransposedCalls :
        /\ calls[k].fn /= "processOutletWiseData"
        /\ Len(calls[k].blocks) = Len(calls[k].out)}

\* The fields seeded from a metric: the metric's own and its aliases
SeededFrom(metric) ==
    IF metric = M_EBIDTA THEN {M_EBIDTA, K_EBITDA}
    ELSE IF metric = M_TotalRevenue
    THEN {M_TotalRevenue, K_TotalAmount, K_TotalSales, K_UnitPrice, K_GrossAmount}
    ELSE {metric}

\* C22 (duplicate metric rows): when several rows below the header match the
\* same vocabulary entry, the record's value for that metric and for every
\* alias seeded from it is the value of the last such row.
C22_LastRowWins ==
    \A k \in WorksheetCalls :
        LET hdr == HeaderOf(k)
        IN \A i \in MetricRowsOf(hdr) :
             LET same == RowsOfMetric(hdr, CanonicalOf(hdr, i))
             IN (Cardinality(same) >= 2 /\ \A i2 \in same : i2 <= i)
                => \A j \in DOMAIN calls[k].out :
                     \A key \in SeededFrom(CanonicalOf(hdr, i)) :
                         calls[k].out[j][key] = BlockValue(k, j, i)

\* C28 (explicit Finance Cost is kept): in processOutletWiseWorksheet, when a
\* row below the header matches 'Finance Cost', the record's 'Finance Cost' is
\* the cleaned value of the last such row in the block's column, whatever that
\* value is (0 included), and not the sum of the interest components.
C28_ExplicitFinanceCost ==
    \A k \in WorksheetCalls :
        LET rows == RowsOfMetric(HeaderOf(k), M_FinanceCost)
        IN \A i \in rows :
             (\A i2 \in rows : i2 <= i)
             => \A j \in DOMAIN calls[k].out :
                    calls[k].out[j][M_FinanceCost] = BlockValue(k, j, i)

\* C30 (no aggregate outlets in transposed output): no record of a transposed
\* pipeline has an outlet name containing 'consolidated' in any letter case.
C30_NoAggregateOutlets ==
    \A k \in TransposedCalls : \A j \in DOMAIN calls[k].out :
        ~includes(toLowerCase(calls[k].out[j][K_Outlet]), N_consolidated)

\* The outlet name of row i: its first cell, trimmed
OutletNameOf(i) == trim(Str(At(Row(grid, i), 0)))

\* The rows strictly below row h that have at least 5 cells and an outlet name
\* that is not empty and does not contain 'consolidated'
OutletDataRows(h) ==
    {i \in (h + 1)..(Len(grid) - 1) :
        /\ Len(Row(grid, i)) >= 5
        /\ OutletNameOf(i) /= <<>>
        /\ ~includes(toLowerCase(OutletNameOf(i)), N_consolidated)}

\* C29 (row-per-outlet coverage): when processFinancialReport hands the grid to
\* processOutletBasedReport, the records are, in row order, one for each row
\* strictly below the detected header row that has at least 5 cells and a
\* non-empty outlet name not containing 'consolidated', and no other.
C29_RowCoverage ==
    \A k \in CallsOf({"processFinancialReport"}) :
        calls[k].route = "outletBased"
        => LET rows == OutletDataRows(OutletBasedHeaderRow(grid))
           IN /\ Len(calls[k].out) = Cardinality(rows)
              /\ \A i \in rows :
                    calls[k].out[Cardinality({i2 \in rows : i2 <= i})][K_Outlet]
                        = OutletNameOf(i)

\* The log events of a step that appended the filename to uploadedFiles and
\* called onFileUpload
DeliveryEvents ==
    {"backend", "backend_threw", "local", "local_threw", "csv", "csv_threw"}

\* How many times onFileUpload was called for the file at index i
Deliveries(i) == Len(SelectSeq(log[i], LAMBDA e : e \in DeliveryEvents))

\* The files that passed validateFile
AcceptedFiles == {i \in DOMAIN files : Head(log[i]) = "accepted"}

\* C24 (at-most-once delivery): for each dropped file, onFileUpload is called
\* at most once, and every step that calls it appends the filename to
\* uploadedFiles exactly once, so there are never more calls than accepted files;
\* this over backend success, backend failure and local fallback, and also when
\* onFileUpload throws.
C24_AtMostOnce ==
    /\ \A i \in DOMAIN files : Deliveries(i) <= 1
    /\ Len(delivered) <= Cardinality(AcceptedFiles)

\* C27 (delivered data never empty): every call of onFileUpload, on the backend
\* path, the local Excel path and the CSV path alike, passes an array holding
\* at least one record.
C27_DeliveredNonEmpty ==
    \A d \in DOMAIN delivered : Len(delivered[d].data) >= 1

\* The accepted files that have not reached their final outcome
Pending ==
    {i \in DOMAIN files : pc[i] \in {"backend", "body", "reading", "parsing"}}

\* C25 (processing flag under concurrent uploads): isProcessing is true in
\* every state in which at least one accepted file has not yet reached its
\* final outcome.
C25_ProcessingFlag ==
    Pending /= {} => isProcessing = TRUE

\* The log events of a step that set the error of a file
FailureEvents ==
    {"rejected", "missing", "unparsable", "empty", "unreadable",
     "local_threw", "csv_threw"}

\* The files that ended with an error
FailedFiles == {i \in DOMAIN files : Last(log[i]) \in FailureEvents}

\* C26 (error message under concurrent uploads): once every dropped file has
\* finished, if one of them ended with an error (validation, CSV or read
\* failure), an error is displayed: the processing of the other files has not
\* cleared it.
C26_ErrorKept ==
    (Pending = {} /\ FailedFiles /= {}) => error /= NoError

\* onFileUpload was called for the file at index i, or its error was set, and
\* not both
OneOutcome(i) ==
    (Deliveries(i) >= 1) /= (Range(log[i]) \cap FailureEvents /= {})

\* C23 (upload completion): every file that passed validateFile eventually
\* reaches its final outcome when the browser fires the pending reader and
\* parser callbacks: the file is done, isProcessing was set back to false, and
\* exactly one of "onFileUpload was called" and "its error was set" has happened
\* for it; a backend that never answers does not keep the file in processing.
C23_UploadCompletes ==
    \A i \in 1..MaxFiles :
        (i \in Pending)
        ~> (i \in DOMAIN files /\ pc[i] = "done" /\ ~isProcessing /\ OneOutcome(i))

====
